---- MODULE Spec2Model ----
(***************************************************************************)
(* Model of the battle simulation scheduler of pokemonshowdown-ai:          *)
(*   BattlePool  (src/src/py/environments/utils/battle_pool.py)             *)
(*   BattleEnv   (src/src/py/environments/battle_env.py)                    *)
(*                                                                         *)
(* The program runs on one asyncio event loop.  Code between two awaits is  *)
(* atomic, so every action below is the code of one task from one          *)
(* suspension point to the next.  Which ready task runs next is chosen by   *)
(* the loop and by the arrival of messages, and is nondeterministic here.   *)
(*                                                                         *)
(* SpecPool drives the BattlePool API directly (several concurrent callers *)
(* of queue_battle and await_battle, cancellation, close).  Spec drives    *)
(* BattleEnv (reset, step, close) on top of the same pool.                  *)
(***************************************************************************)
EXTENDS Integers, Sequences, FiniteSets, TLC

\* ---------------------------------------------------------------- bounds
MaxWorkers == 2
MaxPerWorker == 2
MaxBattles == 3
MaxDouble == 1
MaxAwaitTasks == 2
MaxRogue == 1
MaxBatch == 1
MaxResets == 2
MaxSelfPlay == 1
MaxEnvWorkers == 1
MaxEnvBattles == 2

\* Under Spec the workers repeat a request only for battles 1..MaxDupBattle.
MaxDupBattle == 1

\* During ready() a worker sends at most MaxReady messages on each channel.
MaxReady == 2

\* A ReplayBuffer holds up to MaxSize examples and takes up to MaxAdds adds.
MaxSize == 3
MaxAdds == 5

\* The values written to a segment tree are 0..MaxValue, up to MaxVec of them
\* in one update() call.
MaxValue == 2
MaxVec == 2

\* reset() with any arguments: rollout battles, evaluation opponents, battles
\* of one evaluation opponent, battles in all.
MaxRollout == 2
MaxEvalOpponents == 2
MaxEvalBattles == 2
MaxQueued == 3

BattleIds == 1..MaxBattles
QueuerIds == 1..MaxBattles
\* One await task per battle, and a second one for the first MaxDouble battles.
AwaitIds == {a \in BattleIds \X (1..2) : a[2] = 1 \/ a[1] <= MaxDouble}

VARIABLES
    workers,         \* BattlePoolConfig.workers
    per_worker,      \* BattlePoolConfig.per_worker
    worker_load,     \* BattlePool.worker_load: worker id -> load
    worker_futures,  \* BattlePool.worker_futures: deque of waiters (queuer ids)
    battle_futures,  \* BattlePool.battle_futures: BattleKey -> future state
    battle_count,    \* BattlePool.battle_count
    puller,          \* BattlePool.puller task: running, failed, cancelled
    closed,          \* BattlePool.close() has run (sockets closed, workers killed)
    hosted,          \* battles a worker was sent and has not replied to
    qtask,           \* the tasks running queue_battle: queuer id -> record
    atask,           \* the tasks running await_battle: <<battle id, n>> -> state
    bworker,         \* battle id -> id of the worker in its BattleKey (0: no key yet)
    rogue            \* the senders of the replies that answered no hosted battle

poolvars == <<workers, per_worker, worker_load, worker_futures, battle_futures,
              battle_count, puller, closed, hosted, qtask, atask, bworker, rogue>>

VARIABLES
    batch_limit,     \* BattleEnvConfig.batch_limit
    worker_timeout,  \* BattlePoolConfig.worker_timeout_ms is set
    queue_task,      \* BattleEnv.queue_task: a queuer id, or 0 for None
    todo,            \* the generator of each queuing task: its arguments, its
                     \* loop counters and (history) what it yielded
    active_battles,  \* BattleEnv.active_battles: BattleKey -> active_agents
    main,            \* the caller of reset(), step() and close()
    sim,             \* the workers' side: battle id -> player -> progress
    env_infos,       \* history: battle id -> step() returns with its env-level entry
    battles_at_reset \* history: battle_count at the last reset()

envvars == <<batch_limit, worker_timeout, queue_task, todo, active_battles, main, sim,
             env_infos, battles_at_reset>>

VARIABLES
    handshake,       \* BattlePool.ready(): its position, the messages, the acks
    replay,          \* a ReplayBuffer and the examples added to it
    segtree,         \* a SumTree or MinTree and the values written to it
    final_req        \* player -> the "terminated" member of its AgentFinalRequests

othervars == <<handshake, replay, segtree, final_req>>

vars == <<poolvars, envvars, othervars>>

Players == {"p1", "p2"}

\* AgentFinalRequest.terminated is an Optional[bool] member of a dict: the key
\* can be missing, and its value can be None.
TerminatedMembers == {"absent", "None", "False", "True"}

\* Every battle of the run ends by itself: its final requests carry
\* terminated = True.
AllTerminate == [p \in Players |-> "True"]

\* RolloutOpponentConfig.type and EvalOpponentConfig.type: "model" for a custom
\* model, or a builtin agent.
Types == {"model", "builtin"}

\* The state of _queue_battle_keys(rollout_battles, rollout_opponents,
\* eval_opponents): the arguments, the rounds left of the rollout loop and of
\* each evaluation opponent's loop, and the pairs yielded so far, each with the
\* opponent it was queued against (0: a rollout opponent).
Generator(rollout_battles, rollout_opponents, eval_opponents) ==
    [rollout_battles |-> rollout_battles,
     rollout_opponents |-> rollout_opponents,
     eval_opponents |-> eval_opponents,
     rollout_left |-> rollout_battles,
     eval_left |-> [i \in DOMAIN eval_opponents |-> eval_opponents[i].battles],
     yielded |-> <<>>]

\* No queuing task was created.
NoBattles == Generator(0, <<>>, <<>>)

\* A rollout opponent that half of the rollout battles are played against.
HalfBuiltin == [type |-> "builtin", prob |-> 50]

\* reset(rollout_battles = n, rollout_opponents = (a builtin agent at 0.5,)).
Rollouts(n) == Generator(n, <<HalfBuiltin>>, <<>>)

Workers == 1..workers

\* ------------------------------------------- components checked on their own

\* The two ROUTER sockets of the pool.
Channels == {"battle", "agent"}

\* ready() has not been called: no process spawned, nothing sent or received.
HandshakeNew ==
    [pc |-> "new", battle_ready |-> {}, agent_ready |-> {},
     inbox |-> [c \in Channels |-> <<>>],
     readys |-> [c \in Channels |-> [w \in 1..MaxWorkers |-> 0]],
     others |-> [c \in Channels |-> [w \in 1..MaxWorkers |-> 0]],
     acks |-> [c \in Channels |-> [w \in 1..MaxWorkers |-> 0]]]

\* ReplayBuffer(max_size): an empty array, _index = 0, _size = 0.  A slot of
\* np.empty that was never written shows as "empty"; adds is the history of
\* the add() calls.
ReplayNew(max_size) ==
    [max_size |-> max_size, buffer |-> [i \in 0..(max_size - 1) |-> "empty"],
     index |-> 0, size |-> 0, adds |-> <<>>]

\* np.inf, the initial value of a MinTree: above every value written.
Inf == 99

\* SumTree(capacity) or MinTree(capacity): 2 * capacity nodes filled with the
\* initial value.  last is the history: the last value written to each leaf.
TreeInitial(kind) == IF kind = "sum" THEN 0 ELSE Inf

TreeNew(kind, capacity) ==
    [kind |-> kind, capacity |-> capacity,
     tree |-> [i \in 0..(2 * capacity - 1) |-> TreeInitial(kind)],
     last |-> [i \in 0..(capacity - 1) |-> TreeInitial(kind)],
     bound |-> 0, found |-> -1]

\* The components that a specification leaves alone.
OthersIdle ==
    /\ handshake = HandshakeNew
    /\ replay = ReplayNew(1)
    /\ segtree = TreeNew("sum", 1)

\* ------------------------------------------------------------ BattlePool

\* BattleKey(worker_id, battle_id) of the battle with id b.
KeyOf(b) == <<bworker[b], b>>

\* A task that has not called queue_battle yet.
IdleQueuer == [pc |-> "idle", w |-> 0, b |-> 0]

\* A different choice of worker, the first one whatever its load, which C4
\* tells from the code's.
FirstWorker(load) == 1

\* min(self.worker_load.keys(), key=load): the first worker, in the dict's
\* insertion order, among those of minimum load.
MinLoadWorker(load) ==
    CHOOSE w \in DOMAIN load :
        /\ \A v \in DOMAIN load : load[w] <= load[v]
        /\ \A v \in DOMAIN load : load[v] = load[w] => w <= v

\* Different tests for a free slot, one too generous and one too strict, which
\* C1 and C3 tell from the code's.
HasFreeSlotUpTo(load, w) == load[w] <= per_worker
HasFreeSlotStrict(load, w) == load[w] + 1 < per_worker

\* _get_worker's test for a free task slot.
HasFreeSlot(load, w) == load[w] < per_worker

\* _get_worker, up to its suspension: the chosen worker (0 when the caller
\* must wait), and the load table afterwards.
GetWorker(load) ==
    LET w == MinLoadWorker(load) IN
    IF HasFreeSlot(load, w)
    THEN [w |-> w, load |-> [load EXCEPT ![w] = @ + 1]]
    ELSE [w |-> 0, load |-> load]

\* Another task of the event loop, or a worker, can take a step: the caller is
\* not between step()'s first poll and its return, where nothing suspends, and
\* has not left its loop by an exception of step().
Scheduled == main.pc \notin {"drain", "failed"}

\* BattlePool(config): nothing queued, no drain task yet (puller = p, "none").
\* The load table is shown as ready() fills it, one entry of 0 per worker.
PoolNew(p) ==
    /\ workers \in 1..MaxWorkers
    /\ per_worker \in 1..MaxPerWorker
    /\ worker_load = [w \in Workers |-> 0]
    /\ worker_futures = <<>>
    /\ battle_futures = <<>>
    /\ battle_count = 0
    /\ puller = p
    /\ closed = FALSE
    /\ hosted = {}
    /\ qtask = [q \in QueuerIds |-> IdleQueuer]
    /\ atask = [a \in AwaitIds |-> "none"]
    /\ bworker = [b \in BattleIds |-> 0]
    /\ rogue = <<>>

\* The pool after ready().
PoolInit == PoolNew("running")

\* A map without the entry of key k: dict.pop(k, None).
Pop(map, k) == [x \in DOMAIN map \ {k} |-> map[x]]

\* The await tasks suspended on the future of battle b.
Waiting(b) == {a \in AwaitIds : a[1] = b /\ atask[a] = "waiting"}

\* The future of battle b is done or cancelled: asyncio wakes every task
\* suspended on it (the tasks run later, one at a time).
Wake(tasks, b, how) ==
    [a \in AwaitIds |-> IF a[1] = b /\ tasks[a] = "waiting" THEN how ELSE tasks[a]]

\* ---- queue_battle

\* An id taken without counting, the lowest one every time, which C21 tells
\* from the code's.
FirstBattleId == CHOOSE b \in BattleIds : \A x \in BattleIds : b <= x

\* self.battle_count += 1: the number in the id of the next battle.
NextBattleId == battle_count + 1

\* A queue_battle that has not entered the future when it sends, which C29
\* tells from the code's.
SentUnentered(map, key) == map

\* self.battle_futures[key] = battle_future, a future just created.
Enter(map, key) == (key :> "pending") @@ map

\* queue_battle after _get_worker returned worker w: the next battle id, the
\* pending-result entry, and the send of the battle-start message, where the
\* task suspends (the send fails at once on a closed socket).
StartBattle(q, w) ==
    LET b == NextBattleId IN
    /\ battle_count' = b
    /\ bworker' = [bworker EXCEPT ![b] = w]
    /\ battle_futures' = Enter(battle_futures, <<w, b>>)
    /\ qtask' = [qtask EXCEPT ![q] =
                    [pc |-> IF closed THEN "failed" ELSE "sending", w |-> w, b |-> b]]

\* queue_battle from its entry to its first suspension: _get_worker either
\* takes a slot of the least loaded worker, and the battle is started, or
\* appends a future to worker_futures and suspends on it.
Acquire(q) ==
    LET g == GetWorker(worker_load) IN
    IF g.w # 0
    THEN /\ worker_load' = g.load
         /\ StartBattle(q, g.w)
         /\ UNCHANGED worker_futures
    ELSE /\ worker_futures' = Append(worker_futures, q)
         /\ qtask' = [qtask EXCEPT ![q] = [pc |-> "wait_slot", w |-> 0, b |-> 0]]
         /\ UNCHANGED <<worker_load, battle_count, bworker, battle_futures>>

\* A caller enters queue_battle.
CallQueueBattle(q) ==
    /\ Scheduled
    /\ qtask[q].pc = "idle"
    /\ \A p \in QueuerIds : p < q => qtask[p].pc # "idle"
    /\ ~closed
    /\ battle_count < MaxBattles
    /\ Acquire(q)
    /\ UNCHANGED <<workers, per_worker, puller, closed, hosted, atask, rogue>>
    /\ UNCHANGED <<envvars, othervars>>

\* The task resumes from _get_worker's wait with the worker id it was handed.
QueueResume(q) ==
    /\ Scheduled
    /\ qtask[q].pc = "granted"
    /\ StartBattle(q, qtask[q].w)
    /\ UNCHANGED <<workers, per_worker, worker_load, worker_futures, puller,
                   closed, hosted, atask, rogue>>
    /\ UNCHANGED <<envvars, othervars>>

\* The battle-start message leaves and queue_battle returns the key.
SendComplete(q) ==
    /\ Scheduled
    /\ qtask[q].pc = "sending"
    /\ ~closed
    /\ hosted' = hosted \cup {<<qtask[q].w, qtask[q].b>>}
    /\ qtask' = [qtask EXCEPT ![q].pc = "queued"]
    /\ UNCHANGED <<workers, per_worker, worker_load, worker_futures,
                   battle_futures, battle_count, puller, closed, atask,
                   bworker, rogue>>
    /\ UNCHANGED <<envvars, othervars>>

\* Task.cancel() on a task inside queue_battle.  A future the task waits on is
\* cancelled and stays in worker_futures; a slot already taken is not given
\* back; a send not yet done is dropped.
CancelQueuer(q) ==
    /\ Scheduled
    /\ qtask[q].pc \in {"wait_slot", "granted", "sending"}
    /\ qtask' = [qtask EXCEPT ![q].pc = "cancelled"]
    /\ UNCHANGED <<workers, per_worker, worker_load, worker_futures,
                   battle_futures, battle_count, puller, closed, hosted, atask,
                   bworker, rogue>>
    /\ UNCHANGED <<envvars, othervars>>

\* ---- _put_worker and _pull_results

\* A different choice of waiter, the newest, which C2 tells from the code's.
LastWaiter(futs) == Len(futs)

\* The waiter _put_worker hands the slot to: worker_futures.popleft().
NextWaiter(futs) == 1

\* A release that never refuses, which C5 tells from the code's.
NeverFree(load, w) == FALSE

\* _put_worker's test for a worker that holds no slot.
AlreadyFree(load, w) == load[w] <= 0

\* worker_futures without its i-th element.
Without(futs, i) == [j \in 1..(Len(futs) - 1) |-> IF j < i THEN futs[j] ELSE futs[j + 1]]

\* _put_worker(w): the load table and the wait queue afterwards, the queuer
\* that was handed the slot (0: none) and whether the call returned (FALSE: it
\* raised, ValueError for a free worker, InvalidStateError for set_result on a
\* cancelled waiter, which popleft has removed by then).
PutWorker(load, futs, w) ==
    IF Len(futs) > 0
    THEN LET i == NextWaiter(futs)
             q == futs[i] IN
         IF qtask[q].pc = "wait_slot"
         THEN [ok |-> TRUE, load |-> load, futs |-> Without(futs, i), woken |-> q]
         ELSE [ok |-> FALSE, load |-> load, futs |-> Without(futs, i), woken |-> 0]
    ELSE IF AlreadyFree(load, w)
         THEN [ok |-> FALSE, load |-> load, futs |-> futs, woken |-> 0]
         ELSE [ok |-> TRUE, load |-> [load EXCEPT ![w] = @ - 1], futs |-> futs,
               woken |-> 0]

\* A lookup under the id after the reply's, which C17 tells from the code's.
NextIdKey(w, b) == <<w, b + 1>>

\* The key under which _pull_results looks the future up: the id of the
\* sending worker and the id carried in its reply.
ReplyKey(w, b) == <<w, b>>

\* A loop that an in-band error ends, which C18 tells from the code's.
StopsOnError(resolved, err) == IF resolved /\ ~err THEN "running" ELSE "failed"

\* The drain task after a round: it goes on when set_result was reached and
\* raised nothing, whatever the reply carries, and has ended otherwise.
DrainAfter(resolved, err) == IF resolved THEN "running" ELSE "failed"

\* One round of _pull_results' loop for a reply of worker w carrying battle id
\* b and, with err, an in-band error: _put_worker, then the lookup of the
\* battle's future and set_result.  Any exception ends the task.
PullReply(w, b, err) ==
    LET r == PutWorker(worker_load, worker_futures, w)
        key == ReplyKey(w, b)
        found == key \in DOMAIN battle_futures
        resolved == r.ok /\ found /\ battle_futures[key] = "pending"
    IN
    /\ worker_load' = r.load
    /\ worker_futures' = r.futs
    /\ qtask' = IF r.woken # 0
                THEN [qtask EXCEPT ![r.woken] = [pc |-> "granted", w |-> w, b |-> 0]]
                ELSE qtask
    /\ puller' = DrainAfter(resolved, err)
    /\ battle_futures' = IF resolved
                         THEN [battle_futures EXCEPT ![key] = IF err THEN "err" ELSE "ok"]
                         ELSE battle_futures
    /\ atask' = IF resolved
                THEN Wake(atask, b, IF err THEN "woken_err" ELSE "woken_ok")
                ELSE atask

\* A worker finishes a battle it hosts, every agent's final request sent, and
\* the puller receives its reply.
PullResult(key, err) ==
    /\ Scheduled
    /\ key \in hosted
    /\ \A p \in DOMAIN sim[key[2]] : sim[key[2]][p] \in {"final", "done"}
    /\ puller = "running"
    /\ ~closed
    /\ hosted' = hosted \ {key}
    /\ PullReply(key[1], key[2], err)
    /\ UNCHANGED <<workers, per_worker, battle_count, closed, bworker, rogue>>
    /\ UNCHANGED <<envvars, othervars>>

\* A worker sends a reply that answers no battle it hosts (id 0 is never
\* issued): the release is made all the same, then the lookup fails.
RogueReply(w) ==
    /\ Scheduled
    /\ Len(rogue) < MaxRogue
    /\ puller = "running"
    /\ ~closed
    /\ rogue' = Append(rogue, w)
    /\ PullReply(w, 0, FALSE)
    /\ UNCHANGED <<workers, per_worker, battle_count, closed, hosted, bworker>>
    /\ UNCHANGED <<envvars, othervars>>

\* ---- await_battle

\* A task is created for await_battle(key), key returned by queue_battle.
NewAwait(a) ==
    /\ Scheduled
    /\ atask[a] = "none"
    /\ Cardinality({x \in AwaitIds : atask[x] # "none"}) < MaxAwaitTasks
    /\ a[2] > 1 => atask[<<a[1], a[2] - 1>>] # "none"
    /\ \E q \in QueuerIds : qtask[q].pc = "queued" /\ qtask[q].b = a[1]
    /\ atask' = [atask EXCEPT ![a] = "new"]
    /\ UNCHANGED <<workers, per_worker, worker_load, worker_futures,
                   battle_futures, battle_count, puller, closed, hosted, qtask,
                   bworker, rogue>>
    /\ UNCHANGED <<envvars, othervars>>

\* The task runs to wait_for: a missing key raises KeyError inside the try
\* (the finally pops nothing); otherwise it suspends on the future, and is
\* woken at once when the future is already done or cancelled.
AwaitStart(a) ==
    /\ Scheduled
    /\ atask[a] = "new"
    /\ LET key == KeyOf(a[1]) IN
       atask' = [atask EXCEPT ![a] =
           IF key \notin DOMAIN battle_futures THEN "keyerror"
           ELSE CASE battle_futures[key] = "pending" -> "waiting"
                  [] battle_futures[key] = "ok" -> "woken_ok"
                  [] battle_futures[key] = "err" -> "woken_err"
                  [] OTHER -> "woken_cancel"]
    /\ UNCHANGED <<workers, per_worker, worker_load, worker_futures,
                   battle_futures, battle_count, puller, closed, hosted, qtask,
                   bworker, rogue>>
    /\ UNCHANGED <<envvars, othervars>>

\* How await_battle ends for a task woken in state st.
Outcome(st) ==
    CASE st = "woken_ok" -> "returned"
      [] st = "woken_err" -> "raised"
      [] st = "woken_timeout" -> "timeout"
      [] OTHER -> "cancelled"

\* A removal on the normal result only, which C6 tells from the finally clause.
PopIfResolved(map, key) ==
    IF key \in DOMAIN map /\ map[key] = "ok" THEN Pop(map, key) ELSE map

\* The entry await_battle's finally clause removes.
FinallyPop(map, key) == Pop(map, key)

\* The woken task leaves wait_for (result, CancelledError or TimeoutError) and
\* runs the finally clause, then raises for an in-band error.
AwaitResume(a) ==
    /\ Scheduled
    /\ atask[a] \in {"woken_ok", "woken_err", "woken_cancel", "woken_timeout"}
    /\ battle_futures' = FinallyPop(battle_futures, KeyOf(a[1]))
    /\ atask' = [atask EXCEPT ![a] = Outcome(atask[a])]
    /\ UNCHANGED <<workers, per_worker, worker_load, worker_futures,
                   battle_count, puller, closed, hosted, qtask, bworker, rogue>>
    /\ UNCHANGED <<envvars, othervars>>

\* Task.cancel() on an await task.  Before its first run the coroutine body
\* never executes; otherwise the task is woken with CancelledError.
TaskAfterCancel(st) ==
    CASE st = "new" -> "cancelled_new"
      [] st \in {"waiting", "woken_ok", "woken_err"} -> "woken_cancel"
      [] OTHER -> st

\* The await tasks after Task.cancel() on those of A: the future a cancelled
\* task is suspended on is cancelled with it, which wakes every other task
\* suspended on that future.
TasksAfterCancel(A) ==
    [a \in AwaitIds |->
        IF a \in A THEN TaskAfterCancel(atask[a])
        ELSE IF atask[a] = "waiting"
                /\ \E x \in A : x[1] = a[1] /\ atask[x] = "waiting"
             THEN "woken_cancel"
             ELSE atask[a]]

FuturesAfterCancel(A) ==
    [k \in DOMAIN battle_futures |->
        IF battle_futures[k] = "pending"
           /\ \E x \in A : KeyOf(x[1]) = k /\ atask[x] = "waiting"
        THEN "cancelled"
        ELSE battle_futures[k]]

CancelAwait(a) ==
    /\ Scheduled
    /\ atask[a] \in {"new", "waiting", "woken_ok", "woken_err"}
    /\ atask' = TasksAfterCancel({a})
    /\ battle_futures' = FuturesAfterCancel({a})
    /\ UNCHANGED <<workers, per_worker, worker_load, worker_futures,
                   battle_count, puller, closed, hosted, qtask, bworker, rogue>>
    /\ UNCHANGED <<envvars, othervars>>

\* wait_for's ceiling (one hour) expires: the future is cancelled and the task
\* is woken to raise TimeoutError.
AwaitTimeout(a) ==
    /\ Scheduled
    /\ atask[a] = "waiting"
    /\ atask' = [TasksAfterCancel({a}) EXCEPT ![a] = "woken_timeout"]
    /\ battle_futures' = FuturesAfterCancel({a})
    /\ UNCHANGED <<workers, per_worker, worker_load, worker_futures,
                   battle_count, puller, closed, hosted, qtask, bworker, rogue>>
    /\ UNCHANGED <<envvars, othervars>>

\* ---- close

\* A close() that leaves the futures alone, which C19 tells from the code's.
KeepsFutures(map) == map

\* BattlePool.close(): the workers are killed, every future of the map is
\* cancelled (the entries stay), the puller is cancelled and the sockets are
\* closed, which cancels a send in progress.
ClosedFutures(map) ==
    [k \in DOMAIN map |-> IF map[k] = "pending" THEN "cancelled" ELSE map[k]]

ClosedTasks(tasks) ==
    [a \in AwaitIds |-> IF tasks[a] = "waiting" THEN "woken_cancel" ELSE tasks[a]]

ClosedQueuers(qt) ==
    [q \in QueuerIds |->
        IF qt[q].pc = "sending" THEN [qt[q] EXCEPT !.pc = "cancelled"] ELSE qt[q]]

PoolCloseEffect(map, tasks, qt) ==
    /\ closed' = TRUE
    /\ battle_futures' = ClosedFutures(map)
    /\ atask' = ClosedTasks(tasks)
    /\ puller' = IF puller = "running" THEN "cancelled" ELSE puller
    /\ qtask' = ClosedQueuers(qt)

PoolClose ==
    /\ Scheduled
    /\ ~closed
    /\ PoolCloseEffect(battle_futures, atask, qtask)
    /\ UNCHANGED <<workers, per_worker, worker_load, worker_futures,
                   battle_count, hosted, bworker, rogue>>
    /\ UNCHANGED <<envvars, othervars>>

\* ---------------------------------------------------- the pool, used directly

EnvIdle ==
    /\ batch_limit = 0
    /\ worker_timeout = FALSE
    /\ queue_task = 0
    /\ todo = [q \in QueuerIds |-> NoBattles]
    /\ active_battles = <<>>
    /\ main = [pc |-> "idle", num_pending |-> 0, ret |-> {}, wait |-> 0,
               done |-> FALSE, sent |-> 0, states |-> <<>>,
               terminateds |-> <<>>, truncateds |-> <<>>]
    /\ sim = [b \in BattleIds |-> <<>>]
    /\ env_infos = [b \in BattleIds |-> 0]
    /\ battles_at_reset = 0
    /\ OthersIdle
    /\ final_req = AllTerminate

InitPool == PoolInit /\ EnvIdle

NextPool ==
    \/ \E q \in QueuerIds : CallQueueBattle(q)
    \/ \E q \in QueuerIds : QueueResume(q)
    \/ \E q \in QueuerIds : SendComplete(q)
    \/ \E q \in QueuerIds : CancelQueuer(q)
    \/ \E key \in hosted, err \in BOOLEAN : PullResult(key, err)
    \/ \E w \in Workers : RogueReply(w)
    \/ \E a \in AwaitIds : NewAwait(a)
    \/ \E a \in AwaitIds : AwaitStart(a)
    \/ \E a \in AwaitIds : AwaitResume(a)
    \/ \E a \in AwaitIds : CancelAwait(a)
    \/ \E a \in AwaitIds : AwaitTimeout(a)
    \/ PoolClose

SpecPool == InitPool /\ [][NextPool]_vars

\* ------------------------------------------------------------- BattleEnv

IdleMain ==
    [pc |-> "idle", num_pending |-> 0, ret |-> {}, wait |-> 0, done |-> FALSE,
     sent |-> 0, states |-> <<>>, terminateds |-> <<>>, truncateds |-> <<>>]

\* The env-level entry of battle b in what step() returns: the info under
\* AgentKey(battle, "__env__").
EnvEntry(b) == <<b, "__env__", "env">>

\* asyncio.Task.done() of a queuing task.
QueueDone(q) == qtask[q].pc \in {"done", "cancelled", "failed"}

\* A cancel() that the queuing task ignores, which C15 tells from the code's.
KeepsQueuing(r) == r

\* Task.cancel() on a queuing task.
QueuerAfterCancel(r) ==
    IF r.pc \in {"new", "wait_slot", "granted", "sending"}
    THEN [r EXCEPT !.pc = "cancelled"]
    ELSE r

\* The await tasks of the active battles, which reset() and close() cancel.
ActiveTasks == {<<key[2], 1>> : key \in DOMAIN active_battles}

\* The battles that the calls of reset() have asked for so far.
RECURSIVE Sum(_, _)
Sum(f, S) == IF S = {} THEN 0
             ELSE LET x == CHOOSE y \in S : TRUE IN f[x] + Sum(f, S \ {x})

\* The rounds a generator has still to make: those of the rollout loop and
\* of the loop of every evaluation opponent.
Left(g) == g.rollout_left + Sum(g.eval_left, DOMAIN g.eval_left)

Requested ==
    battle_count + Sum([q \in QueuerIds |-> Left(todo[q])], QueuerIds)
        - Cardinality({q \in QueuerIds : qtask[q].pc = "sending"})

\* probs = np.append(probs, [1 - np.sum(probs)]): the share of self-play, in
\* percent.
SelfProb(g) ==
    100 - Sum([i \in DOMAIN g.rollout_opponents |-> g.rollout_opponents[i].prob],
              DOMAIN g.rollout_opponents)

\* np.random.choice(rollout_np, p=probs): the types of the opponents that can
\* be drawn, the model itself ("self", of type "model") among them.
RolloutTypes(g) ==
    {g.rollout_opponents[i].type :
        i \in {j \in DOMAIN g.rollout_opponents : g.rollout_opponents[j].prob > 0}}
    \cup (IF SelfProb(g) > 0 THEN {"model"} ELSE {})

\* A generator that goes through the evaluation opponents from the last one,
\* which C32 tells from the code's.
LastEval(left) ==
    CHOOSE i \in DOMAIN left :
       left[i] > 0 /\ \A j \in DOMAIN left : left[j] > 0 => j <= i

\* for eval_opp in eval_opponents: for _ in range(eval_opp.battles): the
\* opponent of the next evaluation battle.
NextEval(left) ==
    CHOOSE i \in DOMAIN left :
       left[i] > 0 /\ \A j \in DOMAIN left : left[j] > 0 => i <= j

\* active_agents: model/p1, and the opponent's model when it is a model.
ActiveAgents(type) == IF type = "model" THEN {"p1", "p2"} ELSE {"p1"}

\* The types of the opponents that the generator's next round can queue a
\* battle against.
NextTypes(g) ==
    IF g.rollout_left > 0
    THEN RolloutTypes(g)
    ELSE {g.eval_opponents[NextEval(g.eval_left)].type}

\* The generator after the round that yields key with its active agents.
Yield(g, key, agents) ==
    IF g.rollout_left > 0
    THEN [g EXCEPT !.rollout_left = @ - 1,
                   !.yielded = Append(@, <<key, 0, agents>>)]
    ELSE LET i == NextEval(g.eval_left) IN
         [g EXCEPT !.eval_left[i] = @ - 1,
                   !.yielded = Append(@, <<key, i, agents>>)]

\* reset(rollout_battles, rollout_opponents, eval_opponents), the arguments in
\* g: the tasks of the active battles and the queuing task are cancelled, the
\* map is cleared and a new queuing task is created.  At most max battles are
\* asked for in a run.
ResetTo(q, g, max) ==
    /\ main.pc = "idle"
    /\ ~closed
    /\ puller # "none"
    /\ q <= MaxResets
    /\ qtask[q].pc = "idle"
    /\ \A p \in QueuerIds : p < q => qtask[p].pc # "idle"
    /\ Left(g) <= max - Requested
    /\ atask' = TasksAfterCancel(ActiveTasks)
    /\ battle_futures' = FuturesAfterCancel(ActiveTasks)
    /\ active_battles' = <<>>
    /\ qtask' = [x \in QueuerIds |->
                    IF x = q THEN [pc |-> "new", w |-> 0, b |-> 0]
                    ELSE IF x = queue_task THEN QueuerAfterCancel(qtask[x])
                    ELSE qtask[x]]
    /\ todo' = [todo EXCEPT ![q] = g]
    /\ queue_task' = q
    /\ main' = IdleMain
    /\ battles_at_reset' = battle_count
    /\ UNCHANGED <<env_infos, workers, per_worker, worker_load, worker_futures, battle_count,
                   puller, closed, hosted, bworker, rogue, batch_limit, othervars,
                   worker_timeout, sim>>

\* reset(n battles), all of them rollout battles, against the model itself or
\* a builtin agent.
Reset(q, n) == ResetTo(q, Rollouts(n), MaxEnvBattles)

\* BattleEnv.ready(): BattlePool.ready() starts the workers, shakes hands with
\* each and creates the drain task.
EnvReady ==
    /\ main.pc = "idle"
    /\ ~closed
    /\ puller = "none"
    /\ puller' = "running"
    /\ UNCHANGED <<workers, per_worker, worker_load, worker_futures,
                   battle_futures, battle_count, closed, hosted, qtask, atask,
                   bworker, rogue, envvars, othervars>>

\* BattleEnv.close(), called between two calls of the caller or after one of
\* them raised, for the first time or again: as reset() cancels, then
\* BattlePool.close().
EnvClose ==
    /\ main.pc \in {"idle", "failed", "closed"}
    /\ active_battles' = <<>>
    /\ queue_task' = 0
    /\ PoolCloseEffect(FuturesAfterCancel(ActiveTasks), TasksAfterCancel(ActiveTasks),
                       [x \in QueuerIds |->
                           IF x = queue_task THEN QueuerAfterCancel(qtask[x])
                           ELSE qtask[x]])
    /\ main' = [main EXCEPT !.pc = IF closed THEN "closed_twice" ELSE "closed"]
    /\ UNCHANGED <<battles_at_reset, env_infos, workers, per_worker, worker_load, worker_futures, battle_count,
                   hosted, bworker, rogue, batch_limit, othervars, worker_timeout, todo, sim>>

\* ---- _queue_battles

\* The queuing task starts: _queue_battle_keys calls queue_battle for its
\* first battle, or ends at once when there is nothing to queue.
QueueStart(q) ==
    /\ Scheduled
    /\ qtask[q].pc = "new"
    /\ IF Left(todo[q]) = 0
       THEN /\ qtask' = [qtask EXCEPT ![q].pc = "done"]
            /\ UNCHANGED <<worker_load, worker_futures, battle_count, bworker,
                           battle_futures>>
       ELSE Acquire(q)
    /\ UNCHANGED <<workers, per_worker, puller, closed, hosted, atask, rogue,
                   envvars, othervars>>

\* The battle-start message leaves, queue_battle returns the key and
\* _queue_battles registers the ActiveBattle with a task for await_battle, for
\* the agents expected to report (model/p1, and model/p2 when the opponent is
\* a model); then the next battle is queued, up to queue_battle's suspension.
QueueRegister(q, agents) ==
    /\ Scheduled
    /\ qtask[q].pc = "sending"
    /\ ~closed
    /\ todo[q].rollout_left > 0 /\ agents = Players => qtask[q].b <= MaxSelfPlay
    /\ \E type \in NextTypes(todo[q]) : agents = ActiveAgents(type)
    /\ LET b == qtask[q].b
           key == <<qtask[q].w, b>> IN
       /\ hosted' = hosted \cup {key}
       /\ sim' = [sim EXCEPT ![b] = [p \in agents |-> "play"]]
       /\ active_battles' = (key :> agents) @@ active_battles
       /\ atask' = [atask EXCEPT ![<<b, 1>>] = "new"]
    /\ todo' = [todo EXCEPT ![q] = Yield(@, <<qtask[q].w, qtask[q].b>>, agents)]
    /\ IF Left(todo'[q]) > 0
       THEN Acquire(q)
       ELSE /\ qtask' = [qtask EXCEPT ![q].pc = "done"]
            /\ UNCHANGED <<worker_load, worker_futures, battle_count, bworker,
                           battle_futures>>
    /\ UNCHANGED <<battles_at_reset, env_infos, workers, per_worker, puller, closed, rogue, batch_limit, othervars,
                   worker_timeout, queue_task, main>>

\* ---- the workers' agents

\* The agent-channel messages that are ready to be received.
Ready == {x \in BattleIds \X Players :
             /\ x[2] \in DOMAIN sim[x[1]]
             /\ sim[x[1]][x[2]] \in {"req", "req2", "asked_req", "final",
                                       "unknown"}}

\* The number of messages queued in the agent socket ("req2": two of them).
AgentQueued ==
    Cardinality(Ready) + Cardinality({x \in Ready : sim[x[1]][x[2]] = "req2"})

\* ctx.setsockopt(zmq.RCVHWM, 0): the high-water mark of the sockets, 0 for
\* no limit.
RCVHWM == 0

\* A peer can send to a socket that already queues n messages; at the
\* high-water mark the send blocks.
HasRoom(n) == RCVHWM = 0 \/ n < RCVHWM

\* A worker sends an AgentRequest for a player that is to move.
WorkerRequest(b, p) ==
    /\ Scheduled
    /\ p \in DOMAIN sim[b]
    /\ sim[b][p] = "play"
    /\ KeyOf(b) \in hosted
    /\ ~closed
    /\ HasRoom(AgentQueued)
    /\ sim' = [sim EXCEPT ![b][p] = "req"]
    /\ UNCHANGED <<battles_at_reset, env_infos, poolvars, batch_limit, othervars, worker_timeout, queue_task, todo,
                   active_battles, main>>

\* A worker sends the AgentFinalRequest of a player.
WorkerFinal(b, p) ==
    /\ Scheduled
    /\ p \in DOMAIN sim[b]
    /\ sim[b][p] = "play"
    /\ KeyOf(b) \in hosted
    /\ ~closed
    /\ HasRoom(AgentQueued)
    /\ sim' = [sim EXCEPT ![b][p] = "final"]
    /\ UNCHANGED <<battles_at_reset, env_infos, poolvars, batch_limit, othervars, worker_timeout, queue_task, todo,
                   active_battles, main>>

\* A worker repeats the AgentRequest of a player whose request has not been
\* answered: the first one is still in the socket (two are, then) or was
\* received by step() and waits for the caller's answer.
WorkerDuplicate(b, p) ==
    /\ Scheduled
    /\ b <= MaxDupBattle
    /\ p \in DOMAIN sim[b]
    /\ sim[b][p] \in {"req", "asked"}
    /\ KeyOf(b) \in hosted
    /\ ~closed
    /\ HasRoom(AgentQueued)
    /\ sim' = [sim EXCEPT ![b][p] = IF @ = "req" THEN "req2" ELSE "asked_req"]
    /\ UNCHANGED <<battles_at_reset, env_infos, poolvars, batch_limit, othervars, worker_timeout, queue_task, todo,
                   active_battles, main>>

\* A worker sends, for a player that is to move, an agent-channel message
\* whose type is neither "agent" nor "agent_final".
WorkerUnknown(b, p) ==
    /\ Scheduled
    /\ p \in DOMAIN sim[b]
    /\ sim[b][p] = "play"
    /\ KeyOf(b) \in hosted
    /\ ~closed
    /\ HasRoom(AgentQueued)
    /\ sim' = [sim EXCEPT ![b][p] = "unknown"]
    /\ UNCHANGED <<battles_at_reset, env_infos, poolvars, batch_limit, othervars, worker_timeout, queue_task, todo,
                   active_battles, main>>

\* ---- step

\* all_reqs: the agents a request was received from in this call.
AllReqs == {<<e[1], e[2]>> : e \in {x \in main.ret : x[3] # "env"}}

\* A step() that takes every key for new, which C20 tells from the code's.
NeverSeen(b, p) == FALSE

\* all_reqs.get(key) is not None: a request of this agent was already received
\* in this call.
InAllReqs(b, p) == <<b, p>> \in AllReqs

\* A cap that lets one more request in, which C10 tells from the code's.
BatchOpenInclusive(n) == batch_limit <= 0 \/ n <= batch_limit

\* The batch cap of step's loop condition.
BatchOpen(n) == batch_limit <= 0 \/ n < batch_limit

\* step's loop condition, up to the poll.
LoopCond ==
    /\ BatchOpen(main.num_pending)
    /\ \/ DOMAIN active_battles # {}
       \/ queue_task # 0 /\ ~QueueDone(queue_task)

\* A done flag that does not look at the active battles, which C12 tells from
\* the code's.
QueueingOver == queue_task = 0 \/ QueueDone(queue_task)

\* step's done flag.
AllDone == DOMAIN active_battles = {} /\ (queue_task = 0 \/ QueueDone(queue_task))

\* The action dict of the next call of step(): one ranked-action list for
\* every continuing request that the last call returned and that still waits
\* for its answer.
Action ==
    {k \in BattleIds \X Players :
        /\ k[2] \in DOMAIN sim[k[1]]
        /\ sim[k[1]][k[2]] \in {"asked", "asked_req"}
        /\ <<k[1], k[2], "cont">> \in main.ret}

\* A step() that sends nothing, which C14 tells from the code's.
SendNothing(keys) == sim

\* agent_send for every key of the action dict: the worker gets the answer
\* and its player moves on (a request it repeated meanwhile is still on its
\* way).
AgentSend(keys) ==
    [b \in BattleIds |-> [p \in DOMAIN sim[b] |->
         IF <<b, p>> \in keys
         THEN IF sim[b][p] = "asked_req" THEN "req" ELSE "play"
         ELSE sim[b][p]]]

\* A step() that polls the agent channel whatever is left to do, which C39
\* tells from the code's.
AlwaysEntered == ~closed

\* The loop condition of step() at the start of the call, before the first
\* poll: nothing is pending yet, and a battle is active or being queued.
LoopEntered == BatchOpen(0) /\ ~AllDone

\* step(action) is called with the ranked actions of the agents the previous
\* call returned as continuing; each is sent to its worker.  Then the loop
\* condition is tested: the call either suspends in its first poll or, with
\* nothing active and nothing being queued, returns at once.
StepCall ==
    /\ main.pc = "idle"
    /\ ~closed
    /\ puller # "none"
    /\ sim' = AgentSend(Action)
    /\ IF LoopEntered
       THEN /\ main' = [IdleMain EXCEPT !.pc = "poll",
                                        !.sent = Cardinality(Action)]
            /\ UNCHANGED queue_task
       ELSE /\ main' = [IdleMain EXCEPT !.done = AllDone]
            /\ queue_task' = IF AllDone THEN 0 ELSE queue_task
    /\ UNCHANGED <<battles_at_reset, env_infos, poolvars, batch_limit, othervars, worker_timeout, todo, active_battles>>

\* A final request that leaves the battle in the map with an empty set, which
\* C9 tells from the code's.
KeepEmptied(map, key, p) == [map EXCEPT ![key] = @ \ {p}]

\* A final request that ends the battle for every player at once, which C11
\* tells from the code's.
PopAtOnce(map, key, p) == Pop(map, key)

\* The entry of active_battles for key after an agent's final request: the
\* player leaves the set, and the battle leaves the map with its last player.
AfterFinal(map, key, p) ==
    IF map[key] \ {p} = {}
    THEN Pop(map, key)
    ELSE [map EXCEPT ![key] = @ \ {p}]

\* An agent_recv whose last branch takes the message for a final request,
\* which C24 tells from the code's.
TypeOrFinal(st) ==
    IF st \in {"req", "req2", "asked_req"} THEN "cont" ELSE "final"

\* The branch agent_recv takes on req["type"]: "agent" (a request that goes
\* on), "agent_final", or the raise of RuntimeError.
RecvType(st) ==
    IF st \in {"req", "req2", "asked_req"} THEN "cont"
    ELSE IF st = "final" THEN "final"
    ELSE "unknown"

\* "terminated" in req and bool(req["terminated"]).
Terminated(member) == member = "True"

\* A final request that sets neither flag, which C31 tells from the code's.
NeitherFlag(terminated) == FALSE

\* truncateds[key] = not terminateds[key].
Truncated(terminated) == ~terminated

\* The entries of step's dictionaries for a request that goes on: the state
\* the worker encoded, and neither flag.
Continues(m, key) ==
    [m EXCEPT !.states = (key :> "state") @@ @,
              !.terminateds = (key :> FALSE) @@ @,
              !.truncateds = (key :> FALSE) @@ @]

\* The entries for a final request: the zero state, and the flags from the
\* request's "terminated" member.
Ends(m, key, member) ==
    [m EXCEPT !.states = (key :> "zero") @@ @,
              !.terminateds = (key :> Terminated(member)) @@ @,
              !.truncateds = (key :> Truncated(Terminated(member))) @@ @]

\* One round of step's loop: the poll finds a message (the first poll of a call
\* suspends the caller, the later ones do not wait), agent_recv receives the
\* request of player p of battle b and the request is entered.  A request of
\* an agent already in all_reqs, of a battle that is not active or of a player
\* that is not in the battle's set raises, and so does agent_recv on a message
\* of an unknown type.
StepRecv(b, p, kind) ==
    /\ main.pc = "poll" \/ (main.pc = "drain" /\ LoopCond)
    /\ <<b, p>> \in Ready
    /\ LET key == KeyOf(b)
           known == /\ ~InAllReqs(b, p)
                    /\ key \in DOMAIN active_battles
                    /\ p \in active_battles[key]
       IN
       IF RecvType(sim[b][p]) = "unknown"
       THEN /\ kind = "unknown"
            /\ sim' = [sim EXCEPT ![b][p] = "unknown_recv"]
            /\ main' = [main EXCEPT !.pc = "failed"]
            /\ UNCHANGED active_battles
       ELSE IF RecvType(sim[b][p]) = "cont"
       THEN /\ kind = "cont"
            /\ sim' = [sim EXCEPT ![b][p] = IF @ = "req2" THEN "asked_req"
                                                         ELSE "asked"]
            /\ main' = IF known
                       THEN [Continues(main, <<b, p>>)
                                 EXCEPT !.ret = @ \cup {<<b, p, "cont">>},
                                        !.num_pending = @ + 1,
                                        !.pc = "drain"]
                       ELSE [main EXCEPT !.pc = "failed"]
            /\ UNCHANGED active_battles
       ELSE /\ kind = "final"
            /\ sim' = [sim EXCEPT ![b][p] = "done"]
            /\ IF known
               THEN /\ active_battles' = AfterFinal(active_battles, key, p)
                    /\ main' = IF key \in DOMAIN active_battles'
                               THEN [Ends(main, <<b, p>>, final_req[p])
                                        EXCEPT !.ret = @ \cup {<<b, p, kind>>},
                                               !.pc = "drain"]
                               ELSE [Ends(main, <<b, p>>, final_req[p])
                                        EXCEPT !.ret = @ \cup {<<b, p, kind>>},
                                               !.pc = "await_result",
                                               !.wait = b]
               ELSE /\ main' = [main EXCEPT !.pc = "failed"]
                    /\ UNCHANGED active_battles
    /\ UNCHANGED <<battles_at_reset, env_infos, poolvars, batch_limit, othervars, worker_timeout, queue_task, todo>>

\* A step() that drops the result of a finished battle, which C38 tells from
\* the code's.
WithoutResult(ret, b) == ret

\* infos[AgentKey(battle, "__env__")] = {"battle_result": battle_result}.
WithResult(ret, b) == ret \cup {EnvEntry(b)}

\* wait_for(battle.task, 10) returns the battle's result, which is entered
\* under the env-level key, or raises what the task raised.
StepResult ==
    /\ main.pc = "await_result"
    /\ LET st == atask[<<main.wait, 1>>] IN
       /\ st \in {"returned", "raised", "cancelled", "timeout", "keyerror",
                  "cancelled_new"}
       /\ main' = IF st = "returned"
                  THEN [main EXCEPT !.ret = WithResult(@, main.wait),
                                    !.pc = "drain", !.wait = 0]
                  ELSE [main EXCEPT !.pc = "failed"]
    /\ UNCHANGED <<battles_at_reset, env_infos, poolvars, batch_limit, othervars, worker_timeout, queue_task, todo,
                   active_battles, sim>>

\* wait_for(battle.task, 10) expires first: the task is cancelled and step
\* raises TimeoutError.
StepResultTimeout ==
    /\ main.pc = "await_result"
    /\ atask[<<main.wait, 1>>] \in {"new", "waiting", "woken_ok", "woken_err"}
    /\ atask' = TasksAfterCancel({<<main.wait, 1>>})
    /\ battle_futures' = FuturesAfterCancel({<<main.wait, 1>>})
    /\ main' = [main EXCEPT !.pc = "failed"]
    /\ UNCHANGED <<battles_at_reset, env_infos, workers, per_worker, worker_load, worker_futures, battle_count,
                   puller, closed, hosted, qtask, bworker, rogue, batch_limit, othervars,
                   worker_timeout, queue_task, todo, active_battles, sim>>

\* A poll that waits as long after a message as before, which C30 tells from
\* the code's.
FirstTimeout(n) == IF worker_timeout THEN "timeout" ELSE "forever"

\* timeout=0 if len(all_reqs) > 0 else worker_timeout_ms: how long agent_poll
\* waits for a message after n were received in this call.
PollTimeout(n) ==
    IF n > 0 THEN "none"
    ELSE IF worker_timeout THEN "timeout" ELSE "forever"

\* The loop ends, on its condition or on a poll that finds no message (the
\* first poll of a call waits, up to worker_timeout_ms when that is set; the
\* later ones do not wait), and step returns.
StepReturn ==
    /\ \/ /\ main.pc = "drain"
          /\ \/ ~LoopCond
             \/ Ready = {} /\ PollTimeout(Cardinality(AllReqs)) # "forever"
       \/ /\ main.pc = "poll"
          /\ Ready = {}
          /\ PollTimeout(Cardinality(AllReqs)) = "timeout"
    /\ main' = [main EXCEPT !.pc = "idle", !.done = AllDone, !.sent = 0]
    /\ queue_task' = IF AllDone THEN 0 ELSE queue_task
    /\ env_infos' = [b \in BattleIds |->
                        IF EnvEntry(b) \in main.ret
                        THEN env_infos[b] + 1 ELSE env_infos[b]]
    /\ UNCHANGED <<battles_at_reset, poolvars, batch_limit, othervars, worker_timeout, todo, active_battles, sim>>

\* The environment after BattleEnv(config), whatever its workers will send.
EnvNew ==
    /\ PoolNew("none")
    /\ workers <= MaxEnvWorkers
    /\ batch_limit \in 0..MaxBatch
    /\ worker_timeout \in BOOLEAN
    /\ queue_task = 0
    /\ todo = [q \in QueuerIds |-> NoBattles]
    /\ active_battles = <<>>
    /\ main = IdleMain
    /\ sim = [b \in BattleIds |-> <<>>]
    /\ env_infos = [b \in BattleIds |-> 0]
    /\ battles_at_reset = 0
    /\ OthersIdle

Init == EnvNew /\ final_req = AllTerminate

Next ==
    \/ EnvReady
    \/ \E q \in QueuerIds, n \in 0..MaxEnvBattles : Reset(q, n)
    \/ \E q \in QueuerIds : QueueStart(q)
    \/ \E q \in QueuerIds : QueueResume(q)
    \/ \E q \in QueuerIds, agents \in {{"p1"}, {"p1", "p2"}} : QueueRegister(q, agents)
    \/ \E key \in hosted, err \in BOOLEAN : PullResult(key, err)
    \/ \E a \in AwaitIds : AwaitStart(a)
    \/ \E a \in AwaitIds : AwaitResume(a)
    \/ \E a \in AwaitIds : AwaitTimeout(a)
    \/ \E b \in BattleIds, p \in Players : WorkerRequest(b, p)
    \/ \E b \in BattleIds, p \in Players : WorkerFinal(b, p)
    \/ \E b \in BattleIds, p \in Players : WorkerDuplicate(b, p)
    \/ StepCall
    \/ \E b \in BattleIds, p \in Players, kind \in {"cont", "final"} :
          StepRecv(b, p, kind)
    \/ StepResult
    \/ StepResultTimeout
    \/ StepReturn
    \/ EnvClose

Spec == Init /\ [][Next]_vars

\* ---------------------------------------------- one reset(), run to the end

\* The caller resets once, for any number of battles up to MaxEnvBattles, and
\* then only calls step(). The workers report no error, and no time-out
\* (await_battle's hour, step's 10 s wait for a result) expires before what it
\* waits for.
NextLive ==
    \/ EnvReady
    \/ \E n \in 0..MaxEnvBattles : queue_task = 0 /\ battle_count = 0 /\ Reset(1, n)
    \/ \E q \in QueuerIds : QueueStart(q)
    \/ \E q \in QueuerIds : QueueResume(q)
    \/ \E q \in QueuerIds, agents \in {{"p1"}, {"p1", "p2"}} : QueueRegister(q, agents)
    \/ \E key \in hosted : PullResult(key, FALSE)
    \/ \E a \in AwaitIds : AwaitStart(a)
    \/ \E a \in AwaitIds : AwaitResume(a)
    \/ \E b \in BattleIds, p \in Players : WorkerRequest(b, p)
    \/ \E b \in BattleIds, p \in Players : WorkerFinal(b, p)
    \/ StepCall
    \/ \E b \in BattleIds, p \in Players, kind \in {"cont", "final"} :
          StepRecv(b, p, kind)
    \/ StepResult
    \/ StepReturn

\* Every task of the event loop that can run does run; every worker goes on
\* with its battles and ends each of them (max_turns); the caller keeps
\* calling step().
Fairness ==
    /\ WF_vars(EnvReady)
    /\ \A q \in QueuerIds : WF_vars(QueueStart(q))
    /\ \A q \in QueuerIds : WF_vars(QueueResume(q))
    /\ \A q \in QueuerIds :
          WF_vars(\E agents \in {{"p1"}, {"p1", "p2"}} : QueueRegister(q, agents))
    /\ WF_vars(\E key \in hosted : PullResult(key, FALSE))
    /\ \A a \in AwaitIds : WF_vars(AwaitStart(a))
    /\ \A a \in AwaitIds : WF_vars(AwaitResume(a))
    /\ \A b \in BattleIds, p \in Players : SF_vars(WorkerFinal(b, p))
    /\ WF_vars(StepCall)
    /\ WF_vars(\E b \in BattleIds, p \in Players, kind \in {"cont", "final"} :
                  StepRecv(b, p, kind))
    /\ WF_vars(StepResult)
    /\ WF_vars(StepReturn)

SpecLive == Init /\ [][NextLive]_vars /\ Fairness

\* One reset(), no timeout and no second close(), and workers that may send
\* a message of an unknown type on the agent channel.
NextUnknown ==
    \/ NextLive
    \/ \E b \in BattleIds, p \in Players : WorkerUnknown(b, p)
    \/ \E b \in BattleIds, p \in Players : StepRecv(b, p, "unknown")

SpecUnknown == Init /\ [][NextUnknown]_vars

\* One reset(), run to the end, with final requests of every shape: each
\* player's carry "terminated" as True, False or None, or do not carry it.
InitFinal == EnvNew /\ final_req \in [Players -> TerminatedMembers]

SpecFinal == InitFinal /\ [][NextLive]_vars

\* ------------------------------------------------- one reset(), any arguments

\* The arguments of reset(): up to MaxRollout rollout battles, against the
\* model itself, a model or a builtin agent, and up to MaxEvalOpponents
\* evaluation opponents with up to MaxEvalBattles battles each.
RolloutOpponents ==
    {<<>>, <<HalfBuiltin>>, <<[type |-> "model", prob |-> 100]>>,
     <<[type |-> "builtin", prob |-> 100]>>}

EvalOpponents ==
    UNION {[1..n -> [type : Types, battles : 0..MaxEvalBattles]] :
              n \in 0..MaxEvalOpponents}

Generators ==
    {Generator(n, r, e) :
        n \in 0..MaxRollout, r \in RolloutOpponents, e \in EvalOpponents}

\* The caller resets once and leaves the queuing task to itself; the workers
\* play the battles to their end, where each agent sends its final request and
\* the worker its reply.
NextQueue ==
    \/ EnvReady
    \/ \E g \in Generators :
          queue_task = 0 /\ battle_count = 0 /\ ResetTo(1, g, MaxQueued)
    \/ \E q \in QueuerIds : QueueStart(q)
    \/ \E q \in QueuerIds : QueueResume(q)
    \/ \E q \in QueuerIds, agents \in {{"p1"}, {"p1", "p2"}} : QueueRegister(q, agents)
    \/ \E key \in hosted : PullResult(key, FALSE)
    \/ \E b \in BattleIds, p \in Players : WorkerFinal(b, p)

SpecQueue == Init /\ [][NextQueue]_vars

\* ------------------------------------------------------ BattlePool.ready

\* The pool and the environment as constructed, ready() not yet called.
InitReady ==
    /\ PoolNew("none")
    /\ batch_limit = 0
    /\ worker_timeout \in BOOLEAN
    /\ queue_task = 0
    /\ todo = [q \in QueuerIds |-> NoBattles]
    /\ active_battles = <<>>
    /\ main = IdleMain
    /\ sim = [b \in BattleIds |-> <<>>]
    /\ env_infos = [b \in BattleIds |-> 0]
    /\ battles_at_reset = 0
    /\ final_req = AllTerminate
    /\ OthersIdle

\* ready() up to the first recv: the gather of _add_worker has spawned every
\* process, battle_ready = set(proc_pool.keys()).
ReadySpawn ==
    /\ handshake.pc = "new"
    /\ handshake' = [handshake EXCEPT !.pc = "battle", !.battle_ready = Workers]
    /\ UNCHANGED <<poolvars, envvars, replay, segtree, final_req>>

\* A spawned worker w sends a message on channel c: its Ready, or something
\* else.  Nothing bounds the socket's queue (RCVHWM = 0).
WorkerSend(w, c, type) ==
    /\ handshake.pc # "new"
    /\ handshake.readys[c][w] + handshake.others[c][w] < MaxReady
    /\ handshake' =
          [handshake EXCEPT
              !.inbox[c] = Append(@, <<w, type>>),
              !.readys[c][w] = IF type = "ready" THEN @ + 1 ELSE @,
              !.others[c][w] = IF type = "ready" THEN @ ELSE @ + 1]
    /\ UNCHANGED <<poolvars, envvars, replay, segtree, final_req>>

\* A set that forgets w whether it holds it or not: set.discard, which C22
\* tells from the code's set.remove.
Discard(set, w) == [ok |-> TRUE, set |-> set \ {w}]

\* set.remove(w): KeyError when w is not in the set.
Remove(set, w) == [ok |-> w \in set, set |-> set \ {w}]

\* A ready() that creates the drain task as soon as a worker has announced
\* itself, which C33 tells from the code's.
AtOnce(c, awaited) == TRUE

\* The drain task is created after the two loops: when the agent channel's
\* loop has no worker left to wait for.
LoopsOver(c, awaited) == c = "agent" /\ awaited = {}

\* One turn of the loop of ready() on channel c: recv_multipart, the assert
\* on the type, the Ack sent to the sender, the sender removed from the set
\* of workers still awaited.  When the set empties the next loop starts or,
\* after the agent channel, the drain task is created and ready() returns.
ReadyRecv(c) ==
    /\ handshake.pc = c
    /\ handshake.inbox[c] # <<>>
    /\ LET m == Head(handshake.inbox[c])
           w == m[1]
           set == IF c = "battle" THEN handshake.battle_ready
                  ELSE handshake.agent_ready
           r == Remove(set, w)
           got == [handshake EXCEPT !.inbox[c] = Tail(@)]
           acked == [got EXCEPT !.acks[c][w] = @ + 1]
       IN  /\ handshake' =
                 IF m[2] # "ready" THEN [got EXCEPT !.pc = "failed"]
                 ELSE IF ~r.ok THEN [acked EXCEPT !.pc = "failed"]
                 ELSE IF c = "battle"
                 THEN [acked EXCEPT
                          !.battle_ready = r.set,
                          !.pc = IF r.set = {} THEN "agent" ELSE @,
                          !.agent_ready = IF r.set = {} THEN Workers ELSE @]
                 ELSE [acked EXCEPT
                          !.agent_ready = r.set,
                          !.pc = IF r.set = {} THEN "done" ELSE @]
           /\ puller' = IF m[2] = "ready" /\ r.ok /\ LoopsOver(c, r.set)
                        THEN "running" ELSE puller
    /\ UNCHANGED <<workers, per_worker, worker_load, worker_futures, battle_futures,
                   battle_count, closed, hosted, qtask, atask, bworker, rogue,
                   envvars, replay, segtree, final_req>>

\* RCVTIMEO = worker_timeout_ms: the recv of ready() raises zmq.Again when
\* nothing arrives in time.
ReadyTimeout(c) ==
    /\ worker_timeout
    /\ handshake.pc = c
    /\ handshake.inbox[c] = <<>>
    /\ handshake' = [handshake EXCEPT !.pc = "failed"]
    /\ UNCHANGED <<poolvars, envvars, replay, segtree, final_req>>

NextReady ==
    \/ ReadySpawn
    \/ \E w \in Workers, c \in Channels, type \in {"ready", "other"} :
          WorkerSend(w, c, type)
    \/ \E c \in Channels : ReadyRecv(c)
    \/ \E c \in Channels : ReadyTimeout(c)

SpecReady == InitReady /\ [][NextReady]_vars

\* --------------------------------------------- from ready() to the last step

\* ready() with workers that announce themselves once on each channel, then
\* one reset() and calls of step() until the battles have ended; no worker
\* reports an error.
NextChannels ==
    \/ ReadySpawn
    \/ \E w \in Workers, c \in Channels :
          handshake.readys[c][w] = 0 /\ WorkerSend(w, c, "ready")
    \/ \E c \in Channels : ReadyRecv(c)
    \/ \E c \in Channels : ReadyTimeout(c)
    \/ \E n \in 0..MaxEnvBattles : queue_task = 0 /\ battle_count = 0 /\ Reset(1, n)
    \/ \E q \in QueuerIds : QueueStart(q)
    \/ \E q \in QueuerIds : QueueResume(q)
    \/ \E q \in QueuerIds, agents \in {{"p1"}, {"p1", "p2"}} : QueueRegister(q, agents)
    \/ \E key \in hosted : PullResult(key, FALSE)
    \/ \E a \in AwaitIds : AwaitStart(a)
    \/ \E a \in AwaitIds : AwaitResume(a)
    \/ \E b \in BattleIds, p \in Players : WorkerRequest(b, p)
    \/ \E b \in BattleIds, p \in Players : WorkerFinal(b, p)
    \/ StepCall
    \/ \E b \in BattleIds, p \in Players, kind \in {"cont", "final"} :
          StepRecv(b, p, kind)
    \/ StepResult
    \/ StepReturn

SpecChannels == InitReady /\ [][NextChannels]_vars

\* --------------------------------------------------------- ReplayBuffer

\* The pool and the environment as constructed, nothing called on them.
Untouched ==
    /\ workers = 1
    /\ per_worker = 1
    /\ PoolNew("none")
    /\ batch_limit = 0
    /\ worker_timeout = FALSE
    /\ queue_task = 0
    /\ todo = [q \in QueuerIds |-> NoBattles]
    /\ active_battles = <<>>
    /\ main = IdleMain
    /\ sim = [b \in BattleIds |-> <<>>]
    /\ env_infos = [b \in BattleIds |-> 0]
    /\ battles_at_reset = 0
    /\ handshake = HandshakeNew
    /\ final_req = AllTerminate

Examples == {"a", "b"}

\* ReplayBuffer(max_size) without priorities, for a max_size of 1..MaxSize.
InitReplay ==
    /\ Untouched
    /\ \E max_size \in 1..MaxSize : replay = ReplayNew(max_size)
    /\ segtree = TreeNew("sum", 1)

SmallerOf(a, b) == IF a < b THEN a ELSE b

\* A buffer that writes every example to its first slot, which C25 tells from
\* the code's.
BackToStart(index, max_size) == 0

\* self._index = (self._index + 1) % self.max_size
Advance(index, max_size) == (index + 1) % max_size

\* ReplayBuffer.add(example), self.priority being None.
Add(example) ==
    /\ Len(replay.adds) < MaxAdds
    /\ replay' = [replay EXCEPT
                     !.buffer[replay.index] = example,
                     !.index = Advance(replay.index, replay.max_size),
                     !.size = SmallerOf(replay.size + 1, replay.max_size),
                     !.adds = Append(@, example)]
    /\ UNCHANGED <<poolvars, envvars, handshake, segtree, final_req>>

NextReplay == \E example \in Examples : Add(example)

SpecReplay == InitReplay /\ [][NextReplay]_vars

\* ---------------------------------------------------------- SegmentTree

\* The capacities of the trees: powers of 2, as __init__ asserts.
Capacities == {1, 2, 4}

InitTree ==
    /\ Untouched
    /\ replay = ReplayNew(1)
    /\ \E kind \in {"sum", "min"}, capacity \in Capacities :
          segtree = TreeNew(kind, capacity)

\* self.operation: np.add or np.minimum.
Operation(kind, a, b) == IF kind = "sum" THEN a + b ELSE SmallerOf(a, b)

\* A tree that stops at the leaf, which C26 tells from the code's.
NoParent(i) == 0

\* tree_index // 2
Parent(i) == i \div 2

\* self._tree[tree_index] = value for arrays of indices and values: the value
\* leaf i ends with, the last one of ups for it or, without one, old.
LeafValue(ups, i, old) ==
    LET ks == {k \in 1..Len(ups) : ups[k][1] = i}
    IN  IF ks = {} THEN old
        ELSE ups[CHOOSE k \in ks : \A j \in ks : j <= k][2]

\* The loop of update(): while np.any(parent > 0), every node of parent is
\* recomputed from its two children, then parent = parent // 2.
RECURSIVE Propagate(_, _, _)
Propagate(kind, tree, parents) ==
    IF \A n \in parents : n <= 0 THEN tree
    ELSE Propagate(kind,
                   [i \in DOMAIN tree |->
                       IF i \in parents
                       THEN Operation(kind, tree[2 * i], tree[2 * i + 1])
                       ELSE tree[i]],
                   {Parent(n) : n \in parents})

\* SegmentTree.update(index, value), index and value being scalars or arrays:
\* ups is the sequence of the <<index, value>> pairs.  A search leaves the
\* tree as it is, so the state that records a search's result is not updated
\* further: the same trees are reached without the search.
Update(ups) ==
    /\ segtree.found = -1
    /\ LET capacity == segtree.capacity
           written == [i \in DOMAIN segtree.tree |->
                          IF i >= capacity
                          THEN LeafValue(ups, i - capacity, segtree.tree[i])
                          ELSE segtree.tree[i]]
           parents == {Parent(capacity + ups[k][1]) : k \in 1..Len(ups)}
       IN  segtree' = [segtree EXCEPT
                          !.tree = Propagate(segtree.kind, written, parents),
                          !.last = [i \in DOMAIN segtree.last |->
                                       LeafValue(ups, i, segtree.last[i])],
                          !.bound = 0,
                          !.found = -1]
    /\ UNCHANGED <<poolvars, envvars, handshake, replay, final_req>>

\* SegmentTree.get(index) and SegmentTree.reduce().
Get(i) == segtree.tree[segtree.capacity + i]

Reduce == segtree.tree[1]

\* A descent that goes right only past a smaller value, which C27 tells from
\* the code's.
UseRightStrict(value, bound) == value < bound

\* self._tree[indices] <= bound
UseRight(value, bound) == value <= bound

\* The loop of find_prefix_sum from node down to a leaf: the left child, or
\* the right one with the bound reduced by the left child's value.
RECURSIVE Descend(_, _, _, _)
Descend(tree, capacity, node, bound) ==
    IF node >= capacity THEN node - capacity
    ELSE IF UseRight(tree[2 * node], bound)
         THEN Descend(tree, capacity, 2 * node + 1, bound - tree[2 * node])
         ELSE Descend(tree, capacity, 2 * node, bound)

\* SumTree.find_prefix_sum(bound) for a scalar bound.
FindPrefixSum(bound) ==
    /\ segtree.kind = "sum"
    /\ segtree' = [segtree EXCEPT
                      !.bound = bound,
                      !.found = Descend(segtree.tree, segtree.capacity, 1, bound)]
    /\ UNCHANGED <<poolvars, envvars, handshake, replay, final_req>>

\* An update() of 1..MaxVec <<index, value>> pairs, or a search.
NextTree ==
    \/ \E n \in 1..MaxVec :
          \E ups \in [1..n -> (DOMAIN segtree.last) \X (0..MaxValue)] : Update(ups)
    \/ \E bound \in -1..(MaxValue * segtree.capacity + 1) : FindPrefixSum(bound)

SpecTree == InitTree /\ [][NextTree]_vars

\* ------------------------------------------------------------ properties

\* The queue_battle calls made so far.
Calls == Cardinality({q \in QueuerIds : qtask[q].pc # "idle"})

\* This step runs _put_worker(w): the puller received a reply of worker w.
ReleaseOf(w) ==
    \/ \E key \in hosted : key \notin hosted' /\ key[1] = w
    \/ rogue' # rogue /\ rogue'[Len(rogue')] = w

\* The await tasks of battle b that have left await_battle's body.
Exited == {"returned", "raised", "timeout", "cancelled", "keyerror"}

\* C1: in every reachable state every worker's load is between 0 and
\* per_worker, whatever the interleaving of queue_battle calls, replies,
\* cancellations and close().
C1_LoadWithinCapacity ==
    \A w \in Workers : 0 <= worker_load[w] /\ worker_load[w] <= per_worker

C1_Witness ==
    /\ \A w \in Workers : worker_load[w] = per_worker
    /\ \E q \in QueuerIds : qtask[q].pc = "granted"
    /\ \E q \in QueuerIds : qtask[q].pc = "cancelled"
    /\ closed

\* C2: a caller suspended in _get_worker is handed a slot only by a step that
\* runs _put_worker for the worker it is handed, and only when it is the
\* oldest waiter of worker_futures.
C2_FifoGrant ==
    [][\A q \in QueuerIds :
          (qtask[q].pc = "wait_slot" /\ qtask'[q].pc = "granted") =>
             /\ worker_futures # <<>>
             /\ Head(worker_futures) = q
             /\ ReleaseOf(qtask'[q].w)]_vars

\* One worker of capacity 1 and three callers: the second has been handed the
\* slot of the first battle while the third still waits.
C2_Witness ==
    /\ workers = 1 /\ per_worker = 1 /\ rogue = <<>>
    /\ qtask[1].pc = "queued" /\ <<1, 1>> \notin hosted
    /\ qtask[2].pc = "granted"
    /\ qtask[3].pc = "wait_slot"

\* C3: as long as at most workers * per_worker calls of queue_battle have been
\* made, no step appends a waiter to worker_futures.
C3_NoWaitWithinCapacity ==
    [][Calls' <= workers * per_worker =>
          Len(worker_futures') <= Len(worker_futures)]_vars

C3_Witness ==
    /\ workers = 2
    /\ Calls = workers * per_worker
    /\ \A w \in Workers : worker_load[w] = per_worker
    /\ hosted = {<<1, 1>>, <<2, 2>>}
    /\ worker_futures = <<>>

\* C4: a call of queue_battle that does not suspend takes a slot of a worker of
\* minimum load, which had load < per_worker, and changes no other load; a call
\* suspends, appended to worker_futures, only when every load is per_worker.
C4_AcquireLeastLoaded ==
    [][\A q \in QueuerIds :
          (qtask[q].pc = "idle" /\ qtask'[q].pc # "idle") =>
             IF qtask'[q].pc = "wait_slot"
             THEN /\ \A w \in Workers : worker_load[w] = per_worker
                  /\ worker_load' = worker_load
                  /\ worker_futures' = Append(worker_futures, q)
             ELSE LET w == qtask'[q].w IN
                  /\ w \in Workers
                  /\ worker_load[w] < per_worker
                  /\ \A v \in Workers : worker_load[w] <= worker_load[v]
                  /\ worker_load' = [worker_load EXCEPT ![w] = @ + 1]
                  /\ worker_futures' = worker_futures]_vars

\* With loads (1, 0) the second call was given worker 2, not the first worker
\* with a free slot.
C4_Witness ==
    /\ workers = 2 /\ per_worker = 2
    /\ battle_count = 2
    /\ bworker[1] = 1 /\ bworker[2] = 2
    /\ worker_load[1] = 1 /\ worker_load[2] = 1

\* C5: a release for a worker whose load is zero raises (the puller ends) and
\* leaves the load table as it was: no load becomes negative.
C5_ReleaseOfFreeWorkerFails ==
    [][\A w \in Workers :
          (ReleaseOf(w) /\ worker_load[w] = 0) =>
             /\ puller' = "failed"
             /\ worker_load' = worker_load
             /\ \A v \in Workers : worker_load'[v] >= 0]_vars

C5_Witness ==
    /\ rogue # <<>>
    /\ battle_count = 0
    /\ worker_load[rogue[1]] = 0
    /\ puller = "failed"

C7_OutcomeDeliveredOnce ==
    \A b \in BattleIds :
        Cardinality({a \in AwaitIds :
                        a[1] = b /\ atask[a] \in {"returned", "raised"}}) <= 1

\* The part of C7 that the code keeps: an await_battle that starts on a key
\* after another await of that key has exited fails at once with KeyError.
C7_AwaitAfterExitFails ==
    [][\A a \in AwaitIds :
          (/\ atask[a] = "new"
           /\ atask'[a] \notin {"new", "cancelled_new"}
           /\ \E x \in AwaitIds : x[1] = a[1] /\ atask[x] \in Exited)
          => atask'[a] = "keyerror"]_vars

\* C8, as claimed: a key is in battle_futures exactly when its battle has been
\* queued and its outcome has been neither consumed by an await nor cancelled.
Registered(b) == b <= battle_count
Consumed(b) == \E a \in AwaitIds : a[1] = b /\ atask[a] \in {"returned", "raised"}
Cancelled(b) ==
    \/ KeyOf(b) \in DOMAIN battle_futures /\ battle_futures[KeyOf(b)] = "cancelled"
    \/ \E a \in AwaitIds :
          a[1] = b /\ atask[a] \in {"woken_cancel", "woken_timeout", "cancelled", "timeout"}

C8_PendingIffLive ==
    \A b \in BattleIds :
        (Registered(b) /\ KeyOf(b) \in DOMAIN battle_futures)
           <=> (Registered(b) /\ ~Consumed(b) /\ ~Cancelled(b))

\* This step is reset() or close().
ResetOrClose ==
    \/ closed' /\ ~closed
    \/ queue_task' \notin {0, queue_task}

\* What a step that is not reset() or close() does to the entry of key: the set
\* only loses players and is never left empty, and the entry goes in the very
\* step that receives the final request of its last player.
ShrinksOrEnds(key) ==
    IF key \in DOMAIN active_battles'
    THEN /\ active_battles'[key] \subseteq active_battles[key]
         /\ active_battles'[key] # {}
    ELSE \E p \in active_battles[key] :
            /\ active_battles[key] = {p}
            /\ sim[key[2]][p] = "final"
            /\ sim'[key[2]][p] = "done"

\* C9, as claimed: the set of players of an active battle only shrinks, and
\* the battle leaves active_battles in exactly the step that empties its set,
\* never earlier and never later.
C9_ShrinksUntilEmpty ==
    [][/\ \A key \in DOMAIN active_battles : ShrinksOrEnds(key)
       /\ \A key \in DOMAIN active_battles' : active_battles'[key] # {}]_vars

\* C9, amended: the same for every step but reset() and close(), which clear
\* the whole map whatever the sets hold.
C9_ShrinksUntilEmptyOrCleared ==
    [][/\ IF ResetOrClose
          THEN active_battles' = <<>>
          ELSE \A key \in DOMAIN active_battles : ShrinksOrEnds(key)
       /\ \A key \in DOMAIN active_battles' : active_battles'[key] # {}]_vars

\* The second player of a self-play battle has ended and the first is still
\* active, while another battle has just left the map with its only player.
C9_Witness ==
    /\ qtask[2].pc = "idle"
    /\ \E key \in DOMAIN active_battles :
          /\ DOMAIN sim[key[2]] = Players
          /\ active_battles[key] = {"p1"}
          /\ sim[key[2]]["p2"] = "done"
    /\ main.pc = "await_result"
    /\ KeyOf(main.wait) \notin DOMAIN active_battles
    /\ sim[main.wait] = [p \in {"p1"} |-> "done"]

\* The continuing entries of the current or last call of step().
Continuing == {e \in main.ret : e[3] = "cont"}

\* C10: with batch_limit > 0 a call of step() holds at most batch_limit
\* continuing entries, and only those count toward the cap: the final
\* requests received in the call do not.
C10_BatchCap ==
    /\ main.num_pending = Cardinality(Continuing)
    /\ batch_limit > 0 => Cardinality(Continuing) <= batch_limit

\* step() has returned batch_limit continuing entries and a final one, and a
\* continuing request is still waiting to be received.
C10_Witness ==
    /\ batch_limit > 0
    /\ main.pc = "idle"
    /\ Cardinality(Continuing) = batch_limit
    /\ \E e \in main.ret : e[3] = "final"
    /\ \E x \in Ready : sim[x[1]][x[2]] = "req"

\* The current or last call of step() received the last outstanding final
\* request of battle b: one of b's, and every player of b has had its own
\* received by now.
LastFinalIn(b) ==
    /\ \E p \in DOMAIN sim[b] : <<b, p, "final">> \in main.ret
    /\ \A p \in DOMAIN sim[b] : sim[b][p] = "done"

\* C11: what a call of step() returns holds the env-level entry of a battle
\* exactly when the call received the battle's last outstanding final request;
\* the entry is the result of the battle's own await task, the battle is then
\* absent from active_battles, and no battle's entry is returned by two calls.
C11_EnvEntryWithLastFinal ==
    /\ \A b \in BattleIds : env_infos[b] <= 1
    /\ main.pc = "idle" =>
          \A b \in BattleIds :
              /\ EnvEntry(b) \in main.ret <=> LastFinalIn(b)
              /\ EnvEntry(b) \in main.ret =>
                    /\ KeyOf(b) \notin DOMAIN active_battles
                    /\ atask[<<b, 1>>] = "returned"
                    /\ env_infos[b] = 1

\* A self-play battle whose second player ended in an earlier call: the call
\* that received the first player's final request returned the env-level entry.
C11_Witness ==
    /\ main.pc = "idle"
    /\ \E b \in BattleIds :
          /\ DOMAIN sim[b] = Players
          /\ EnvEntry(b) \in main.ret
          /\ <<b, "p1", "final">> \in main.ret
          /\ <<b, "p2", "final">> \notin main.ret

\* Nothing is left to do: no battle is active and the queuing task is absent
\* or finished.
NothingLeft ==
    /\ DOMAIN active_battles = {}
    /\ queue_task = 0 \/ qtask[queue_task].pc \in {"done", "cancelled", "failed"}

\* The battles queued since the last reset().
SinceReset == {b \in BattleIds : battles_at_reset < b /\ b <= battle_count}

\* This step ends a call of step() by its return.
StepReturns ==
    /\ main'.pc = "idle"
    /\ main' # main
    /\ ~ResetOrClose

\* While the last returned done flag is true, every battle queued since the
\* last reset() has been registered and each of its players has sent its final
\* request.
DoneOnlyAfterFinals ==
    main.done =>
        \A b \in SinceReset :
            /\ DOMAIN sim[b] # {}
            /\ \A p \in DOMAIN sim[b] : sim[b][p] \in {"final", "done"}

\* C12: the done flag a call of step() returns is true exactly when, at the
\* return, no battle is active and the queuing task is absent or finished; and
\* it is never true while a battle queued since the last reset() has a player
\* that has not sent its final request.
C12_DoneIffNothingLeft ==
    /\ [][StepReturns => (main'.done <=> NothingLeft')]_vars
    /\ []DoneOnlyAfterFinals

\* done was returned after a second reset() while a battle of the first one,
\* cancelled by that reset(), still has a player to move.
C12_Witness ==
    /\ main.done
    /\ SinceReset # {}
    /\ \E b \in BattleIds \ SinceReset :
          \E p \in DOMAIN sim[b] : sim[b][p] = "play"

\* C13: after a reset() for a finite number of battles, with workers that end
\* every battle and a caller that answers every continuing request in its next
\* call, some call of step() returns done = true; from then on, until another
\* reset(), done stays true and no battle is queued.
C13_EventuallyDoneOnce ==
    /\ (queue_task # 0) ~> (main.pc = "idle" /\ main.done)
    /\ [][(main.done /\ ~ResetOrClose) =>
             (main'.done /\ battle_count' = battle_count)]_vars

\* What the code keeps of C13: the same, for a reset() that has at least one
\* battle to queue.
C13_DoneOnceWhenBattlesQueued ==
    /\ (queue_task # 0 /\ (Left(todo[1]) > 0 \/ battle_count > 0)) ~>
          (main.pc = "idle" /\ main.done)
    /\ [][(main.done /\ ~ResetOrClose) =>
             (main'.done /\ battle_count' = battle_count)]_vars

\* done was returned after two battles, one of them self-play, and several
\* calls of step().
C13_DoneAfterBattles ==
    /\ main.pc = "idle" /\ main.done
    /\ battle_count = MaxEnvBattles
    /\ \A b \in 1..MaxEnvBattles : env_infos[b] = 1
    /\ \E b \in BattleIds : DOMAIN sim[b] = Players

\* This step is the start of a call of step().
StepCalled == main.pc = "idle" /\ ~ResetOrClose /\ main' # main

\* This step receives an agent-channel message in step().
Receives ==
    /\ main.ret \subseteq main'.ret
    /\ \E e \in main'.ret \ main.ret : e[3] # "env"

\* C14: within one call of step(), every ranked-action list of the action dict
\* has been sent to its worker (the player has its answer) before the first
\* agent-channel message of the call is received: the call starts by sending
\* them all, with nothing received yet, and a message is received only in the
\* loop that follows.
C14_AnswersSentBeforeReceive ==
    [][/\ StepCalled =>
             /\ \A k \in Action : sim'[k[1]][k[2]] \in {"play", "req"}
             /\ main'.pc = "poll" => main'.sent = Cardinality(Action)
             /\ main'.ret = {}
       /\ Receives => main.pc \in {"poll", "drain"}
       /\ main'.pc \in {"poll", "drain"} /\ main.pc = "idle" => StepCalled]_vars

\* A call that sent an answer has received a message.
C14_Witness ==
    /\ main.pc = "drain"
    /\ main.sent > 0
    /\ \E e \in main.ret : e[3] # "env"

\* This step is reset().
IsReset == queue_task' \notin {0, queue_task}

\* A queuing task that can still run.
LiveQueuer(r) == r.pc \in {"new", "wait_slot", "granted", "sending"}

\* An await task that no cancel() has reached and that has not ended.
LiveAwait(st) == st \in {"new", "waiting", "woken_ok", "woken_err"}

\* This step registers a battle in active_battles or starts or completes the
\* sending of a battle-start message.
QueuesBattle ==
    \/ ~(DOMAIN active_battles' \subseteq DOMAIN active_battles)
    \/ battle_count' # battle_count
    \/ ~(hosted' \subseteq hosted)

\* C15: reset() cancels the await task of every active battle and the previous
\* queuing task, and starts the new one with active_battles empty; a queuing
\* task other than the current one never runs again, and only the current one
\* registers a battle or sends a battle-start message.
C15_ResetCancelsPrevious ==
    /\ [][IsReset =>
             /\ active_battles' = <<>>
             /\ \A a \in ActiveTasks : ~LiveAwait(atask'[a])
             /\ queue_task # 0 => ~LiveQueuer(qtask'[queue_task])
             /\ qtask'[queue_task'].pc = "new"]_vars
    /\ [](\A q \in QueuerIds : q # queue_task => ~LiveQueuer(qtask[q]))
    /\ [][QueuesBattle =>
             /\ queue_task' = queue_task
             /\ queue_task # 0
             /\ LiveQueuer(qtask[queue_task])
             /\ qtask'[queue_task] # qtask[queue_task]]_vars

\* A reset() has cancelled a queuing task in the middle of queue_battle, its
\* battle-start message not yet out, and the await task of an active battle.
C15_Witness ==
    /\ queue_task = 2
    /\ qtask[1].pc = "cancelled"
    /\ qtask[1].b # 0
    /\ KeyOf(qtask[1].b) \notin hosted
    /\ active_battles = <<>>
    /\ \E b \in BattleIds :
          /\ b < qtask[1].b
          /\ atask[<<b, 1>>] \in {"woken_cancel", "cancelled", "cancelled_new"}

\* The await task of battle b was cancelled by reset(): the battle was queued
\* before the last reset() and its task has taken a cancel().
CancelledByReset(b) ==
    /\ ~closed
    /\ b <= battles_at_reset
    /\ atask[<<b, 1>>] \in {"cancelled_new", "woken_cancel", "cancelled"}

\* The replies that this step's round of _pull_results receives, and whose
\* release of the worker's slot by _put_worker raises nothing.
Replied ==
    IF closed' THEN {}
    ELSE {key \in hosted \ hosted' :
             PutWorker(worker_load, worker_futures, key[1]).ok}

\* C16: the BattleReply of a battle whose await task was cancelled by reset()
\* leaves the result-drain loop running.
C16_LateReplyTolerated ==
    [][\A key \in Replied : CancelledByReset(key[2]) => puller' = "running"]_vars

\* What the code keeps of C16: the reply is tolerated when the cancel() came
\* before the await task first ran, the battle's future still pending and
\* registered.
C16_LateReplyToUnstartedTolerated ==
    [][\A key \in Replied :
          CancelledByReset(key[2]) /\ atask[<<key[2], 1>>] = "cancelled_new"
             => puller' = "running"]_vars

\* Such a reply has been received and the loop runs.
C16_UnstartedReplied ==
    /\ puller = "running"
    /\ \E b \in BattleIds :
          /\ CancelledByReset(b)
          /\ atask[<<b, 1>>] = "cancelled_new"
          /\ KeyOf(b) \in DOMAIN battle_futures
          /\ battle_futures[KeyOf(b)] = "ok"

\* The futures that this step resolves with a reply.
ResolvedNow ==
    {k \in DOMAIN battle_futures :
        /\ battle_futures[k] = "pending"
        /\ k \in DOMAIN battle_futures'
        /\ battle_futures'[k] \in {"ok", "err"}}

\* The key of the reply that this step's round of _pull_results receives: that
\* of a battle the worker hosts, or of a reply that answers no battle.
ReplyKeys ==
    IF closed' THEN {}
    ELSE (hosted \ hosted')
            \cup (IF Len(rogue') > Len(rogue)
                  THEN {<<rogue'[Len(rogue')], 0>>} ELSE {})

\* A pending future is registered under key k.
HasPending(k) == k \in DOMAIN battle_futures /\ battle_futures[k] = "pending"

\* C17: a round of the result-drain loop resolves no future but the one
\* registered under (sending worker id, id of the reply), and resolves that one
\* when it is pending and the release of the worker's slot, which comes first,
\* raised nothing; a reply whose key has no pending entry resolves nothing and
\* ends the loop with the exception raised.
C17_ResolvesRepliedKeyOnly ==
    [][/\ ResolvedNow \subseteq ReplyKeys
       /\ \A k \in ReplyKeys :
             /\ ~HasPending(k) => ResolvedNow = {} /\ puller' = "failed"
             /\ HasPending(k) /\ PutWorker(worker_load, worker_futures, k[1]).ok
                   => ResolvedNow = {k} /\ puller' = "running"]_vars

\* One battle of a worker was resolved while another one of the same worker
\* stayed pending, and a reply without entry has ended the loop.
C17_Witness ==
    /\ puller = "failed"
    /\ rogue # <<>>
    /\ \E k1, k2 \in DOMAIN battle_futures :
          /\ k1[1] = k2[1]
          /\ battle_futures[k1] \in {"ok", "err"}
          /\ battle_futures[k2] = "pending"

\* The futures that this step resolves with a reply carrying an in-band error.
ErrResolved == {k \in ResolvedNow : battle_futures'[k] = "err"}

\* This step's _put_worker(w) released a slot: it handed the slot to the
\* waiting queue_battle call or took one off the worker's load.
Released(w) ==
    LET r == PutWorker(worker_load, worker_futures, w) IN
    /\ r.ok
    /\ worker_load' = r.load
    /\ worker_futures' = r.futs
    /\ IF r.woken # 0
       THEN qtask'[r.woken].pc = "granted" /\ qtask'[r.woken].w = w
       ELSE worker_load'[w] = worker_load[w] - 1

\* C18: the round of the result-drain loop that resolves a future with a reply
\* carrying an in-band error has released the sending worker's slot, leaves
\* the loop running and wakes only tasks awaiting that battle; await_battle
\* raises its RuntimeError, which names its own key, only in a task whose
\* battle's future holds such a reply.
C18_ErrorOnlyToAwaiter ==
    [][/\ \A k \in ErrResolved :
             /\ puller' = "running"
             /\ Released(k[1])
             /\ \A a \in AwaitIds :
                   atask'[a] # atask[a] => a[1] = k[2] /\ atask'[a] = "woken_err"
       /\ \A a \in AwaitIds :
             /\ atask'[a] = "raised" /\ atask[a] # "raised"
                   => atask[a] = "woken_err"
             /\ atask'[a] = "woken_err" /\ atask[a] # "woken_err"
                   => /\ KeyOf(a[1]) \in DOMAIN battle_futures'
                      /\ battle_futures'[KeyOf(a[1])] = "err"]_vars

\* await_battle raised for a battle, and a later battle's reply was resolved
\* and returned to its awaiter.
C18_Witness ==
    /\ puller = "running"
    /\ \E a, c \in AwaitIds :
          /\ a[1] < c[1]
          /\ atask[a] = "raised"
          /\ atask[c] = "returned"

\* What close() leaves: the pool closed (its workers killed, its sockets
\* closed), no pending battle future, the drain task not running, no active
\* battle and no queuing task.
PostClose ==
    /\ closed
    /\ \A k \in DOMAIN battle_futures : battle_futures[k] # "pending"
    /\ puller # "running"
    /\ active_battles = <<>>
    /\ queue_task = 0

\* This step is a call of BattleEnv.close().
CloseCalled == main'.pc \in {"closed", "closed_twice"} /\ main'.pc # main.pc

\* C19: close() can be called before ready(), after it, with battles queued or
\* in flight, and again after a close(); every call leaves the pool closed,
\* every pending battle future cancelled, the drain task not running, no
\* active battle and no queuing task; this lasts, and a second call changes
\* nothing of what the first one left.
C19_CloseIdempotent ==
    /\ [][CloseCalled => PostClose']_vars
    /\ [](closed => PostClose)
    /\ [][CloseCalled /\ closed =>
             UNCHANGED <<poolvars, batch_limit, worker_timeout, queue_task,
                         todo, active_battles, sim>>]_vars

\* close() was called a second time after a first call that came with a battle
\* in flight, its await task waiting, and the queuing task in queue_battle.
C19_Witness ==
    /\ main.pc = "closed_twice"
    /\ puller = "cancelled"
    /\ \E k \in DOMAIN battle_futures : battle_futures[k] = "cancelled"
    /\ \E q \in QueuerIds : qtask[q].pc = "cancelled"
    /\ \E a \in AwaitIds : atask[a] \in {"woken_cancel", "cancelled"}

\* This step receives a request of player p of battle b while an earlier
\* request of that agent, received by step(), has not been answered.
DuplicateReceived(b, p) ==
    /\ p \in DOMAIN sim[b]
    /\ sim[b][p] = "asked_req"
    /\ sim'[b][p] = "asked"

\* C20: a request received for an agent whose earlier request has not been
\* answered makes step() raise in that very round, and enters nothing: the
\* entries received so far, the first request's among them, are as they were.
C20_DuplicateRequestFails ==
    [][\A b \in BattleIds, p \in Players :
          DuplicateReceived(b, p) =>
             /\ main'.pc = "failed"
             /\ main'.ret = main.ret
             /\ main'.num_pending = main.num_pending
             /\ active_battles' = active_battles]_vars

\* step() has raised on the repeated request of an agent of an active battle
\* whose first request it had entered in the same call.
C20_Witness ==
    /\ main.pc = "failed"
    /\ main.wait = 0
    /\ \E b \in BattleIds, p \in Players :
          /\ p \in DOMAIN sim[b]
          /\ sim[b][p] = "asked"
          /\ <<b, p, "cont">> \in main.ret
          /\ KeyOf(b) \in DOMAIN active_battles
          /\ p \in active_battles[KeyOf(b)]
          /\ battles_at_reset < b

\* This step gives the queue_battle call of task q its battle id.
TakesId(q) == qtask'[q].b # 0 /\ qtask'[q].b # qtask[q].b

\* C21, as claimed: keys are never reused and the ids follow the order in
\* which the slots were granted; so no call that finds a free slot takes its
\* id while a waiter that was handed a slot before it has none yet.
C21_IdsInGrantOrder ==
    [][\A q \in QueuerIds :
          TakesId(q) /\ qtask[q].pc = "idle" =>
             \A x \in QueuerIds : qtask[x].pc # "granted"]_vars

\* C21, as the code has it: every queue_battle call takes an id one above
\* every id taken before, whatever was cancelled or closed in between, so its
\* key was never issued, and the ids follow the order in which the calls leave
\* _get_worker.
C21_KeysNeverReused ==
    /\ [][/\ battle_count' >= battle_count
          /\ \A q \in QueuerIds :
                TakesId(q) =>
                   /\ qtask'[q].b = battle_count + 1
                   /\ battle_count' = battle_count + 1
                   /\ bworker[qtask'[q].b] = 0
                   /\ <<qtask'[q].w, qtask'[q].b>> \notin DOMAIN battle_futures
                   /\ \A x \in QueuerIds : qtask[x].b < qtask'[q].b]_vars
    /\ [](\A q, x \in QueuerIds :
            q # x /\ qtask[q].b # 0 => qtask[q].b # qtask[x].b)

\* Three calls have their keys, a cancelled one among them, and the entry of
\* an earlier key is already gone.
C21_Witness ==
    /\ battle_count = MaxBattles
    /\ \E q \in QueuerIds : qtask[q].pc = "cancelled" /\ qtask[q].b # 0
    /\ \E b \in BattleIds : bworker[b] # 0 /\ KeyOf(b) \notin DOMAIN battle_futures

\* Every spawned worker sent a Ready on channel c and was sent one Ack on it.
Announced(c) ==
    \A w \in Workers : handshake.readys[c][w] >= 1 /\ handshake.acks[c][w] = 1

\* C22: ready() returns only when every spawned worker has sent Ready and
\* been sent exactly one Ack on the battle channel and on the agent channel;
\* the agent handshake starts after the battle handshake is over; the drain
\* task exists only once ready() has returned, so never when some worker has
\* not announced itself.
C22_ReadyAfterHandshakes ==
    /\ handshake.pc = "done" => Announced("battle") /\ Announced("agent")
    /\ handshake.pc = "agent" => Announced("battle")
    /\ puller # "none" => handshake.pc = "done"

\* ready() returned for the largest pool, and some worker had sent its Ready
\* twice on a channel (the second one is still in the socket's queue).
C22_Witness ==
    /\ handshake.pc = "done"
    /\ puller = "running"
    /\ workers = MaxWorkers
    /\ \E w \in Workers, c \in Channels : handshake.readys[c][w] = 2

\* A worker has a message of player p of battle b to send on the agent channel
\* and the send blocks.
SendBlocked(b, p) ==
    /\ KeyOf(b) \in hosted
    /\ p \in DOMAIN sim[b]
    /\ sim[b][p] = "play"
    /\ ~HasRoom(AgentQueued)

\* A step of a worker, of a task of the event loop or of the caller of step().
Progress ==
    \/ \E q \in QueuerIds : QueueStart(q)
    \/ \E q \in QueuerIds : QueueResume(q)
    \/ \E q \in QueuerIds, agents \in {{"p1"}, {"p1", "p2"}} : QueueRegister(q, agents)
    \/ \E key \in hosted : PullResult(key, FALSE)
    \/ \E a \in AwaitIds : AwaitStart(a)
    \/ \E a \in AwaitIds : AwaitResume(a)
    \/ \E b \in BattleIds, p \in Players : WorkerRequest(b, p)
    \/ \E b \in BattleIds, p \in Players : WorkerFinal(b, p)
    \/ StepCall
    \/ \E b \in BattleIds, p \in Players, kind \in {"cont", "final"} :
          StepRecv(b, p, kind)
    \/ StepResult
    \/ StepReturn

\* C23: no worker is ever blocked on sending a request, whatever the caller
\* waits for; and as long as a worker hosts a battle whose reply is still to
\* come, and nothing has failed or been closed, a worker, a task of the
\* event loop or the caller of step() can take a step.
C23_NoDeadlock ==
    /\ \A b \in BattleIds, p \in Players : ~SendBlocked(b, p)
    /\ (hosted # {} /\ main.pc # "failed" /\ puller = "running" /\ ~closed)
          => ENABLED Progress

\* Every battle a worker hosts was queued by the latest reset().
NoneAbandoned == \A key \in hosted : key[2] > battles_at_reset

\* As long as no reset() has abandoned a battle that a worker still hosts,
\* and nothing has failed or been closed, some step can be taken while a
\* battle is unfinished.
C23_NoDeadlockUnlessAbandoned ==
    /\ \A b \in BattleIds, p \in Players : ~SendBlocked(b, p)
    /\ (/\ hosted # {}
        /\ NoneAbandoned
        /\ main.pc # "failed"
        /\ puller = "running"
        /\ ~closed)
          => ENABLED Progress

\* This step receives the message of an unknown type of player p of battle b.
ReceivesUnknown(b, p) ==
    /\ p \in DOMAIN sim[b]
    /\ sim[b][p] = "unknown"
    /\ sim'[b][p] # "unknown"

\* C24: receiving an agent-channel message whose type is neither "agent" nor
\* "agent_final" ends the step() call by an exception at once: no entry is
\* added to what the call collected, no request is counted, no battle's
\* active set changes and nothing else is received in the call.
C24_UnknownTypeFails ==
    [][\A b \in BattleIds, p \in Players :
          ReceivesUnknown(b, p) =>
             /\ main'.pc = "failed"
             /\ main'.ret = main.ret
             /\ main'.num_pending = main.num_pending
             /\ active_battles' = active_battles
             /\ \A x \in BattleIds \X Players :
                   x # <<b, p>> /\ x[2] \in DOMAIN sim[x[1]]
                      => sim'[x[1]][x[2]] = sim[x[1]][x[2]]]_vars

\* step() failed on a message of an unknown type after it had drained a final
\* request in the same call, with the sender's battle active.
C24_Witness ==
    /\ main.pc = "failed"
    /\ main.ret # {}
    /\ \E b \in BattleIds, p \in Players :
          /\ p \in DOMAIN sim[b]
          /\ sim[b][p] = "unknown_recv"
          /\ KeyOf(b) \in DOMAIN active_battles
          /\ p \in active_battles[KeyOf(b)]

\* The stored examples, oldest first: the first _size slots while the buffer
\* fills, then the slots from _index on, around the array.
Stored ==
    [k \in 1..replay.size |->
        replay.buffer[IF replay.size < replay.max_size THEN k - 1
                      ELSE (replay.index + k - 1) % replay.max_size]]

\* C25: after any sequence of add() calls len(buffer) is the smaller of the
\* number of adds and max_size, and the buffer holds exactly the most recent
\* len(buffer) examples, in the order they were added; once the buffer is
\* full an add overwrites the slot of the oldest stored example and no other.
C25_HoldsMostRecent ==
    /\ [](/\ replay.size = SmallerOf(Len(replay.adds), replay.max_size)
          /\ Stored = SubSeq(replay.adds, Len(replay.adds) - replay.size + 1,
                             Len(replay.adds)))
    /\ [][replay.adds # replay.adds' /\ replay.size = replay.max_size
            => /\ replay.buffer[replay.index]
                     = replay.adds[Len(replay.adds) - replay.max_size + 1]
               /\ replay.buffer'[replay.index] = replay.adds'[Len(replay.adds')]
               /\ \A i \in DOMAIN replay.buffer :
                     i # replay.index => replay.buffer'[i] = replay.buffer[i]]_vars

\* The largest buffer has been filled and has wrapped around, part of the
\* way: it holds examples of two rounds.
C25_Witness ==
    /\ replay.max_size = MaxSize
    /\ Len(replay.adds) = MaxAdds
    /\ replay.size = MaxSize
    /\ replay.index # 0
    /\ replay.adds[MaxAdds] # replay.adds[MaxAdds - 1]

\* The smallest value of a function over a set.
Smallest(f, S) == CHOOSE m \in {f[i] : i \in S} : \A i \in S : m <= f[i]

\* C26: after any sequence of update() calls, get(i) is the last value
\* written to leaf i, or the initial value if leaf i was never written, and
\* reduce() is the sum of all leaves for a SumTree and their minimum for a
\* MinTree.
C26_TreeTracksLeaves ==
    /\ \A i \in DOMAIN segtree.last : Get(i) = segtree.last[i]
    /\ segtree.kind = "sum" => Reduce = Sum(segtree.last, DOMAIN segtree.last)
    /\ segtree.kind = "min" => Reduce = Smallest(segtree.last, DOMAIN segtree.last)

\* A MinTree of the largest capacity with a leaf never written, a leaf
\* written 0 and the others written something else.
C26_Witness ==
    /\ segtree.kind = "min"
    /\ segtree.capacity = 4
    /\ segtree.last[0] = Inf
    /\ segtree.last[2] = 0
    /\ segtree.last[1] = MaxValue
    /\ segtree.last[3] = 1

\* The highest i in 0..capacity with sum(leaves[:i]) <= bound, brought into
\* 0..capacity-1 (0 when there is none).
HighestPrefix(bound) ==
    LET S == {i \in 0..segtree.capacity :
                 Sum(segtree.last, {j \in DOMAIN segtree.last : j < i}) <= bound}
    IN  IF S = {} THEN 0
        ELSE SmallerOf(CHOOSE i \in S : \A j \in S : j <= i, segtree.capacity - 1)

\* C27: on a SumTree with non-negative leaves find_prefix_sum(bound) returns
\* the highest leaf index i whose preceding leaves sum to at most bound,
\* within 0..capacity-1: 0 for a negative bound, capacity-1 for a bound at or
\* above the total.
C27_FindPrefixSum ==
    segtree.found # -1 =>
       /\ segtree.found = HighestPrefix(segtree.bound)
       /\ segtree.bound < 0 => segtree.found = 0
       /\ segtree.bound >= Sum(segtree.last, DOMAIN segtree.last) =>
             segtree.found = segtree.capacity - 1

\* A search that ends inside the tree, past a leaf of 0: leaves 1, 0, 2 and
\* a bound of 1 give index 2.
C27_Witness ==
    /\ segtree.capacity = 4
    /\ segtree.last[0] = 1 /\ segtree.last[1] = 0 /\ segtree.last[2] = 2
    /\ segtree.bound = 1
    /\ segtree.found = 2

\* The calls suspended in _get_worker, and the one that has waited longest.
LiveWaiters == {i \in 1..Len(worker_futures) : qtask[worker_futures[i]].pc = "wait_slot"}

OldestWaiter == worker_futures[CHOOSE i \in LiveWaiters : \A j \in LiveWaiters : i <= j]

\* This step's _put_worker(w) hands the slot to queuer q and to nobody else,
\* and leaves the load table as it is.
HandedTo(q, w) ==
    /\ qtask'[q] = [pc |-> "granted", w |-> w, b |-> 0]
    /\ \A x \in QueuerIds : x # q => qtask'[x] = qtask[x]
    /\ worker_load' = worker_load

\* C28: a _put_worker call for a battle's reply, made while some call is
\* suspended in _get_worker, hands the releasing worker's id to the call that
\* has waited longest, wakes no other waiter and leaves every worker's load
\* unchanged.
C28_ReleaseToOldestWaiter ==
    [][\A w \in Workers :
          ReleaseOf(w) /\ rogue' = rogue /\ LiveWaiters # {}
             => HandedTo(OldestWaiter, w)]_vars

\* The same for the calls made while the oldest entry of worker_futures is
\* the future of a call that is still suspended: that entry leaves the queue
\* and the others stay.
C28_ReleaseToOldestLiveWaiter ==
    [][\A w \in Workers :
          /\ ReleaseOf(w)
          /\ worker_futures # <<>>
          /\ qtask[Head(worker_futures)].pc = "wait_slot"
          => /\ HandedTo(Head(worker_futures), w)
             /\ worker_futures' = Tail(worker_futures)]_vars

\* A slot was handed over while a later waiter stayed queued and every
\* worker was full.
C28_HandedOver ==
    /\ \E q \in QueuerIds : qtask[q].pc = "granted"
    /\ worker_futures # <<>>
    /\ \A w \in Workers : worker_load[w] = per_worker

\* The key that the queue_battle call of task q has made.
KeyIn(qt, q) == <<qt[q].w, qt[q].b>>

\* C29: when queue_battle suspends in the send of the battle-start message
\* the pending-result entry of its key is registered; when the send is done
\* the call returns, the entry still there and still pending, no reply for
\* the battle having been possible before; and as long as no await_battle
\* call for a battle has left its body, the entry of a battle that a worker
\* hosts, and so may reply for, exists.
C29_RegisteredBeforeSent ==
    /\ [][\A q \in QueuerIds :
             /\ (qtask[q].pc # "sending" /\ qtask'[q].pc = "sending") =>
                   /\ KeyIn(qtask', q) \in DOMAIN battle_futures'
                   /\ battle_futures'[KeyIn(qtask', q)] = "pending"
                   /\ KeyIn(qtask', q) \notin hosted'
             /\ KeyIn(qtask, q) \notin hosted /\ KeyIn(qtask, q) \in hosted' =>
                   /\ qtask[q].pc = "sending"
                   /\ qtask'[q].pc = "queued"
                   /\ KeyIn(qtask, q) \in DOMAIN battle_futures
                   /\ battle_futures[KeyIn(qtask, q)] = "pending"
                   /\ battle_futures' = battle_futures]_vars
    /\ [](\A key \in hosted :
             (\A a \in AwaitIds : a[1] = key[2] => atask[a] \notin Exited)
                => key \in DOMAIN battle_futures)

\* A battle's reply was drained right after queue_battle returned its key,
\* before any await_battle call for it: the entry was there to take it.
C29_Witness ==
    \E q \in QueuerIds :
       /\ qtask[q].pc = "queued"
       /\ KeyIn(qtask, q) \notin hosted
       /\ KeyIn(qtask, q) \in DOMAIN battle_futures
       /\ battle_futures[KeyIn(qtask, q)] = "ok"
       /\ \A a \in AwaitIds : a[1] = qtask[q].b => atask[a] = "none"

\* The step() call goes on: it receives a message or returns.
StepGoesOn ==
    \/ \E b \in BattleIds, p \in Players, kind \in {"cont", "final"} :
          StepRecv(b, p, kind)
    \/ StepReturn

\* A battle is active or being queued: the second part of the loop condition.
BattlesLeft ==
    DOMAIN active_battles # {} \/ (queue_task # 0 /\ ~QueueDone(queue_task))

\* C30: in a step() call the poll that may wait is the one made before any
\* message was received, and it ends without a message only by the timeout;
\* after the first message the call never waits in a poll: it receives the
\* next message only while one is ready, the batch cap is not reached and a
\* battle is active or being queued, and otherwise returns at once.
C30_OnlyFirstPollWaits ==
    /\ [](main.pc = "poll" => AllReqs = {})
    /\ [](main.pc = "drain" => AllReqs # {} /\ ENABLED StepGoesOn)
    /\ [][main.pc = "poll" /\ main'.pc = "idle" => worker_timeout /\ Ready = {}]_vars
    /\ [][main.pc = "drain" /\ main'.pc = "idle" =>
             \/ Ready = {}
             \/ ~BatchOpen(main.num_pending)
             \/ ~BattlesLeft]_vars
    /\ [][main.pc = "drain" /\ main'.pc # "idle" /\ main' # main =>
             /\ Ready # {}
             /\ BatchOpen(main.num_pending)
             /\ BattlesLeft]_vars

\* A call without timeout and without batch cap has returned a request while
\* a battle is still active: it stopped on the first poll that found nothing.
C30_Witness ==
    /\ main.pc = "idle"
    /\ ~worker_timeout
    /\ batch_limit = 0
    /\ \E e \in main.ret : e[3] = "cont"
    /\ DOMAIN active_battles # {}
    /\ Ready = {}

\* ---- C31

\* C31: every request that step() drains gets its entries in the returned
\* dictionaries: a request that goes on gets terminated = truncated = FALSE and
\* leaves the battle's active set alone; a final request gets the zero state,
\* exactly one of terminated and truncated (truncated = not terminated), and
\* its player is no longer in its battle's active set.
C31_StepEntries ==
    [][\A b \in BattleIds, p \in Players :
          LET k == <<b, p>> IN
          k \in AllReqs' \ AllReqs =>
             /\ DOMAIN main'.states = AllReqs'
             /\ DOMAIN main'.terminateds = AllReqs'
             /\ DOMAIN main'.truncateds = AllReqs'
             /\ IF RecvType(sim[b][p]) = "cont"
                THEN /\ ~main'.terminateds[k]
                     /\ ~main'.truncateds[k]
                     /\ active_battles' = active_battles
                ELSE /\ RecvType(sim[b][p]) = "final"
                     /\ main'.states[k] = "zero"
                     /\ main'.truncateds[k] = ~main'.terminateds[k]
                     /\ p \in active_battles[KeyOf(b)]
                     /\ KeyOf(b) \in DOMAIN active_battles' =>
                           p \notin active_battles'[KeyOf(b)]]_vars

\* One call of step() has drained a request that goes on, a final request
\* that is terminated and a final request that is truncated.
C31_Witness ==
    \E k1, k2, k3 \in DOMAIN main.states :
       /\ main.states[k1] = "state"
       /\ main.terminateds[k2] /\ ~main.truncateds[k2]
       /\ main.truncateds[k3] /\ ~main.terminateds[k3]

\* ---- C32

\* The battles that generator g yielded against opponent i (0: a rollout
\* opponent).
Against(g, i) == {n \in DOMAIN g.yielded : g.yielded[n][2] = i}

\* The types of the opponents that a battle against opponent i of g can have.
TypesOf(g, i) ==
    IF i > 0 THEN {g.eval_opponents[i].type}
    ELSE (IF SelfProb(g) > 0 THEN {"model"} ELSE {})
         \cup {g.rollout_opponents[j].type : j \in DOMAIN g.rollout_opponents}

\* C32: a queuing task that is not cancelled queues rollout_battles plus the
\* sum of the evaluation opponents' battles: the rollout battles first, then
\* each evaluation opponent's battles in the order of the configuration; each
\* key is registered at once, with model/p1 and, only when the opponent has
\* type "model", the opponent's model as the players expected to report.
C32_QueuedInOrder ==
    \A q \in QueuerIds :
       LET g == todo[q]
           y == g.yielded
           evals == DOMAIN g.eval_opponents
       IN
       /\ \A m, n \in DOMAIN y : m < n => y[m][2] <= y[n][2] /\ y[m][1] # y[n][1]
       /\ Cardinality(Against(g, 0)) <= g.rollout_battles
       /\ \A i \in evals :
             /\ Cardinality(Against(g, i)) <= g.eval_opponents[i].battles
             /\ Against(g, i) # {} =>
                   /\ Cardinality(Against(g, 0)) = g.rollout_battles
                   /\ \A j \in evals :
                         j < i => Cardinality(Against(g, j)) = g.eval_opponents[j].battles
       /\ \A n \in DOMAIN y :
             /\ y[n][2] \in {0} \cup evals
             /\ \E type \in TypesOf(g, y[n][2]) :
                   /\ y[n][3] = {"p1"} \cup (IF type = "model" THEN {"p2"} ELSE {})
                   /\ DOMAIN sim[y[n][1][2]] = y[n][3]
             /\ y[n][1] \in DOMAIN active_battles => active_battles[y[n][1]] = y[n][3]
             /\ atask[<<y[n][1][2], 1>>] # "none"
       /\ qtask[q].pc = "done" =>
             Len(y) = g.rollout_battles
                        + Sum([i \in evals |-> g.eval_opponents[i].battles], evals)

\* A queuing task has ended after a rollout battle and a battle against each
\* of two evaluation opponents, a builtin agent and a model.
C32_Witness ==
    \E q \in QueuerIds :
       /\ qtask[q].pc = "done"
       /\ Len(todo[q].yielded) = 3
       /\ todo[q].rollout_battles = 1
       /\ Len(todo[q].eval_opponents) = 2
       /\ todo[q].eval_opponents[1].type = "builtin"
       /\ todo[q].eval_opponents[2].type = "model"
       /\ todo[q].yielded[3][3] = {"p1", "p2"}

\* ---- C33

\* ready() receives from channel c in this step.
HandshakeReceives(c) == Len(handshake'.inbox[c]) < Len(handshake.inbox[c])

\* The drain loop receives a reply from the battle channel in this step.
DrainReceives == hosted' # hosted /\ hosted' \subseteq hosted

\* step() receives a request from the agent channel in this step.
StepReceives ==
    \E x \in Ready :
       /\ sim'[x[1]][x[2]] # sim[x[1]][x[2]]
       /\ sim'[x[1]][x[2]] \in {"asked", "asked_req", "done", "unknown_recv"}

\* C33: no channel has two receivers at a time.  The battle channel is
\* received from by ready()'s handshake while no drain task exists, and by the
\* drain loop once ready() is over; the agent channel by ready()'s handshake
\* and, once ready() is over, by step(); a receive of the drain loop touches
\* nothing of the agent channel and a receive of step() nothing of the battle
\* channel.
C33_OneReceiverPerChannel ==
    /\ [](puller = "running" => handshake.pc \notin {"new", "battle"})
    /\ [](main.pc \in {"poll", "drain", "await_result"} => handshake.pc = "done")
    /\ [][HandshakeReceives("battle") =>
             /\ handshake.pc = "battle" /\ puller = "none" /\ main.pc = "idle"
             /\ ~DrainReceives /\ ~StepReceives]_vars
    /\ [][HandshakeReceives("agent") =>
             /\ handshake.pc = "agent" /\ puller = "none" /\ main.pc = "idle"
             /\ ~DrainReceives /\ ~StepReceives]_vars
    /\ [][DrainReceives =>
             /\ puller = "running" /\ handshake.pc = "done"
             /\ handshake' = handshake /\ sim' = sim /\ main' = main]_vars
    /\ [][StepReceives =>
             /\ main.pc \in {"poll", "drain"} /\ handshake.pc = "done"
             /\ handshake' = handshake /\ hosted' = hosted
             /\ battle_futures' = battle_futures
             /\ worker_load' = worker_load]_vars

\* After the handshake with the largest pool, the drain loop has received
\* the reply of a battle whose final requests step() received.
C33_Witness ==
    /\ handshake.pc = "done"
    /\ workers = MaxWorkers
    /\ \E b \in BattleIds :
          /\ EnvEntry(b) \in main.ret
          /\ <<b, "p1", "final">> \in main.ret

\* ---- C34

\* The slots granted on worker w whose reply has not been drained: those of
\* the battles w hosts, and those of the queue_battle calls that were granted
\* w and have not sent their start message, the calls cancelled or failed
\* since the grant among them.
Granted(w) ==
    Cardinality({key \in hosted : key[1] = w})
    + Cardinality({q \in QueuerIds :
                     /\ qtask[q].w = w
                     /\ qtask[q].pc \in {"granted", "sending", "cancelled", "failed"}})

\* C34: for every worker, load is the number of slots granted on it whose
\* reply has not been drained, as long as every reply answers a battle that
\* its worker hosts.
C34_SlotAccountingExact ==
    rogue = <<>> => \A w \in Workers : worker_load[w] = Granted(w)

\* No call of queue_battle was cancelled while it waited for a slot.
NoWaiterCancelled ==
    \A q \in QueuerIds : qtask[q].pc = "cancelled" => qtask[q].w # 0

\* The accounting is exact as long as no call was cancelled in its wait for a
\* slot: cancelled await tasks and calls cancelled between the grant and the
\* send keep their slots counted.
C34_ExactUnlessWaiterCancelled ==
    rogue = <<>> /\ NoWaiterCancelled =>
       \A w \in Workers : worker_load[w] = Granted(w)

\* A call was cancelled after it was granted a slot, and a battle whose await
\* task was cancelled is still hosted.
C34_SlotsKept ==
    /\ \E q \in QueuerIds : qtask[q].pc = "cancelled" /\ qtask[q].w # 0
    /\ \E key \in hosted : atask[<<key[2], 1>>] \in {"cancelled", "cancelled_new"}

\* ---- C35

\* step() receives the message of player p of battle b in this step.
Drains(b, p) ==
    /\ <<b, p>> \in Ready
    /\ sim'[b][p] # sim[b][p]
    /\ sim'[b][p] \in {"asked", "asked_req", "done", "unknown_recv"}

\* C35: every agent request that step() drains belongs to a battle that is
\* registered in active_battles at that moment.
C35_DrainedBelongsToActive ==
    [][\A b \in BattleIds, p \in Players :
          Drains(b, p) => KeyOf(b) \in DOMAIN active_battles]_vars

\* Every drained request of a battle queued since the last reset() belongs to
\* a battle registered in active_battles: none is received between the send
\* of the start message and the registration.
C35_DrainedSinceResetBelongs ==
    [][\A b \in BattleIds, p \in Players :
          Drains(b, p) /\ b > battles_at_reset =>
             KeyOf(b) \in DOMAIN active_battles]_vars

\* ---- C36

\* The calls of queue_battle that were cancelled in their wait for a slot and
\* whose future is still in worker_futures.
CancelledWaiters ==
    {q \in QueuerIds :
        /\ qtask[q].pc = "cancelled"
        /\ \E i \in DOMAIN worker_futures : worker_futures[i] = q}

\* C36: a release made while a cancelled waiter is queued does not fail: the
\* slot goes to a waiter that still waits, or back to the load table, and the
\* cancelled waiter is not resumed.
C36_ReleasePassesCancelledWaiter ==
    [][\A w \in Workers :
          ReleaseOf(w) /\ rogue' = rogue /\ CancelledWaiters # {} =>
             /\ \/ \E q \in QueuerIds :
                      /\ qtask[q].pc = "wait_slot"
                      /\ qtask'[q].pc = "granted" /\ qtask'[q].w = w
                \/ worker_load'[w] = worker_load[w] - 1
             /\ \A q \in CancelledWaiters : qtask'[q] = qtask[q]]_vars

\* A call of queue_battle that was cancelled is never resumed, with or without
\* a slot.
C36_CancelledNeverResumed ==
    [][\A q \in QueuerIds :
          qtask[q].pc = "cancelled" => qtask'[q] = qtask[q]]_vars

\* ---- C37

\* Battle b was queued before the last reset(), and none of its tasks is still
\* on its way: its queue_battle call has returned or was cancelled, and each of
\* its await tasks has ended or was cancelled before it ran.
Unwound(b) ==
    /\ bworker[b] # 0
    /\ b <= battles_at_reset
    /\ \A q \in QueuerIds : qtask[q].b = b => qtask[q].pc \in {"queued", "cancelled", "failed"}
    /\ \A a \in AwaitIds : a[1] = b => atask[a] \in Exited \cup {"none", "cancelled_new"}

\* C37: after reset(), once the cancelled tasks have unwound, battle_futures
\* holds no entry of a battle queued before the reset.
C37_NoEntryAfterReset ==
    \A b \in BattleIds : Unwound(b) => KeyOf(b) \notin DOMAIN battle_futures

\* The entry of a battle queued before the reset is gone once an await task
\* of the battle has run and ended.
C37_NoEntryOnceAwaited ==
    \A b \in BattleIds :
       Unwound(b) /\ atask[<<b, 1>>] \in Exited =>
          KeyOf(b) \notin DOMAIN battle_futures

\* reset() has cancelled an await task that was suspended on its battle's
\* future, and the task has ended.
C37_CancelledAwaitEnded ==
    \E b \in BattleIds : Unwound(b) /\ atask[<<b, 1>>] = "cancelled"

\* ---- C38

\* The battles that the queuing task of the last reset() has queued.
QueuedByReset ==
    {todo[queue_task].yielded[n][1][2] : n \in DOMAIN todo[queue_task].yielded}

\* C38: when a call of step() is the first since a reset() to return done =
\* TRUE, the calls since that reset have returned one env-level entry for each
\* battle the reset queued, which are all the battles it asked for, and none
\* for another battle.
C38_OneResultPerBattle ==
    [][StepReturns /\ main'.done /\ queue_task # 0 =>
          /\ Cardinality(QueuedByReset) = todo[queue_task].rollout_battles
          /\ \A b \in QueuedByReset : env_infos'[b] = 1
          /\ \A b \in BattleIds \ QueuedByReset :
                /\ env_infos'[b] = env_infos[b]
                /\ b > battles_at_reset => env_infos'[b] = 0]_vars

\* The first done = TRUE after a reset() that queued two battles, each with
\* its one env-level entry returned.
C38_Witness ==
    /\ main.pc = "idle" /\ main.done
    /\ battle_count - battles_at_reset = 2
    /\ \A b \in BattleIds :
          (battles_at_reset < b /\ b <= battle_count) => env_infos[b] = 1

\* ---- C39

\* C39: once step() has returned done = TRUE, and until the next reset() or
\* close(), nothing is active or being queued, and every call of step() returns
\* at once with done = TRUE and with empty dictionaries, and receives nothing
\* from the agent channel.
C39_DoneSticky ==
    /\ [](main.pc = "idle" /\ main.done =>
             queue_task = 0 /\ DOMAIN active_battles = {})
    /\ [][main.pc = "idle" /\ main.done /\ ~ResetOrClose =>
             /\ main'.pc = "idle" /\ main'.done
             /\ main' # main =>
                   /\ main'.ret = {}
                   /\ main'.states = <<>>
                   /\ main'.terminateds = <<>>
                   /\ main'.truncateds = <<>>
             /\ \A b \in BattleIds, p \in Players : ~Drains(b, p)]_vars

\* A call of step() made after the one that returned a battle's result and
\* done = TRUE has returned done = TRUE and nothing else, although a request
\* of a battle that an earlier reset() abandoned is in the agent socket.
C39_Witness ==
    /\ main.pc = "idle" /\ main.done /\ main.ret = {}
    /\ \E b \in BattleIds : b > battles_at_reset /\ env_infos[b] = 1
    /\ Ready # {}

\* ---- C40

\* The last reset() had nothing to queue, and no call of step() has returned
\* done since.
NothingToQueue ==
    /\ queue_task # 0
    /\ todo[queue_task].rollout_battles = 0
    /\ todo[queue_task].eval_opponents = <<>>

\* C40: after a reset() with nothing to queue, the call of step() that follows
\* returns, with done = TRUE, whether a worker timeout is configured or not.
C40_EmptyResetStepReturns ==
    NothingToQueue ~> (main.pc = "idle" /\ main.done)

\* With a worker timeout configured done = TRUE is returned, and whenever a
\* call made after such a reset() returns, it returns nothing but the flag,
\* which is TRUE once the queuing task has run.
C40_ReturnsWithTimeout ==
    /\ (NothingToQueue /\ worker_timeout) ~> (main.pc = "idle" /\ main.done)
    /\ [][NothingToQueue /\ StepReturns =>
             /\ main'.ret = {}
             /\ main'.done <=> QueueDone(queue_task)]_vars

====
